---- MODULE Spec2Model ----
(***************************************************************************)
(* Lift telemetry backend: live counters (live_counters.py), alarm rule    *)
(* engine (alarm_logic.py) and floor model, as state machines.             *)
(***************************************************************************)
EXTENDS Integers, Sequences, FiniteSets, TLC

VARIABLES
    _inmem,         \* live_counters._inmem: store key -> (floor -> value)
    _state_inmem,   \* live_counters._state_inmem: device -> last sample state
    last,           \* the most recent call and its outcome (observation only)
    pc,             \* concurrent runs: each thread's position in its function
    loc,            \* concurrent runs: each thread's local variables
    gen,            \* concurrent runs: store key -> identity of the dict stored there
    incs,           \* concurrent runs: increments requested so far, by key and floor
    written,        \* concurrent runs: values sent by successful flush writes
    calls,          \* concurrent runs: calls started by each thread
    _device_id_cache,   \* alarm_logic: device -> platform id
    _floor_meta_cache,  \* alarm_logic: device -> [boundaries, labels, home_floor, ts]
    _device_door_state, \* alarm_logic: device -> door open?
    _door_open_since,   \* alarm_logic: device -> time the open door was first seen
    _bucket_counts,     \* alarm_logic: (device, metric) -> list of [center, count]
    _movement_state,    \* alarm_logic: device -> previous height
    now,                \* time.time(), in seconds
    open_alarms,        \* "Door Open Too Long" requests since the door was last
                        \* handled as closed, per device (observation only)
    query,              \* a function call under study: arguments and result
    _stop_event,        \* scheduler: the Event _run_loop polls
    stop_event,         \* scheduler: the Event of line 142
    _thread,            \* scheduler: the thread start_scheduler keeps (0 is None)
    _loop_started,      \* scheduler: the started flag
    loops,              \* scheduler: position of every _run_loop thread created
    joiner,             \* scheduler: position of the caller of lines 122-135
    agg                 \* scheduler: position of the thread main.py starts

lcvars == <<_inmem, _state_inmem, last>>
ccvars == <<pc, loc, gen, incs, written, calls>>
alvars == <<_device_id_cache, _floor_meta_cache, _device_door_state, _door_open_since,
            _bucket_counts, _movement_state, now, open_alarms>>
scvars == <<_stop_event, stop_event, _thread, _loop_started, loops, joiner, agg>>
elsewhere == <<alvars, query, scvars>>
vars == <<_inmem, _state_inmem, last, pc, loc, gen, incs, written, calls,
          _device_id_cache, _floor_meta_cache, _device_door_state, _door_open_since,
          _bucket_counts, _movement_state, now, open_alarms, query,
          _stop_event, stop_event, _thread, _loop_started, loops, joiner, agg>>

(***************************************************************************)
(* Values                                                                  *)
(***************************************************************************)
None == "None"          \* Python None
NaN == -1000000         \* float("nan"): a height no sample carries
True == "True"
False == "False"
EmptyMap == [x \in {} |-> 0]    \* {}

Put(f, k, v) == [x \in (DOMAIN f) \cup {k} |-> IF x = k THEN v ELSE f[x]]
Pop(f, k) == [x \in (DOMAIN f) \ {k} |-> f[x]]
Get(f, k, dflt) == IF k \in DOMAIN f THEN f[k] ELSE dflt

Abs(x) == IF x < 0 THEN -x ELSE x

(***************************************************************************)
(* Bounds of the live-counter model                                        *)
(***************************************************************************)
MaxTick == 2
TickMs == 500
DayMs == 86400000

DeviceIds == {"dev1", "dev2"}
FloorLabels == {"G"}
Heights == {0, 50, 101}
\* epoch ms around the first midnight after the epoch
Timestamps == {DayMs + (k - 1) * TickMs : k \in 0..MaxTick}

(***************************************************************************)
(* live_counters.py                                                        *)
(***************************************************************************)
LC_MOVEMENT_THRESHOLD_MM == 50
LC_OFFSET_SEC == 0

\* YYYY-MM-DD of the shifted epoch second, as the day number since the epoch
_local_date_str(ts_ms) == ((ts_ms \div 1000) + LC_OFFSET_SEC) \div (DayMs \div 1000)

Dates == {_local_date_str(t) : t \in Timestamps}

\* The (floor_label, height_mm, door_open) triples _parse_pack_out extracts
ParsedPacks ==
    [fl : {None} \cup FloorLabels, h : {NaN} \cup Heights, dopen : {None, True, False}]

\* Left out: a change of exactly thr is no movement
_movementMut(prev_h, h, thr) ==
    IF prev_h = NaN \/ h = NaN THEN FALSE ELSE Abs(h - prev_h) >= thr
_movement(prev_h, h, thr) ==
    IF prev_h = NaN \/ h = NaN THEN FALSE ELSE Abs(h - prev_h) > thr

_door_key(date_str, device_id) == <<"lc", date_str, device_id, "door">>
_idle_key(date_str, device_id) == <<"lc", date_str, device_id, "idle_ms">>

_hinc(store, store_key, field, delta) ==
    LET h == Get(store, store_key, EmptyMap)
    IN  Put(store, store_key, Put(h, field, Get(h, field, 0) + delta))

_hgetall(store, store_key) == Get(store, store_key, EmptyMap)

_state_get(states, device_id) == Get(states, device_id, EmptyMap)

\* Left out: only device_id's entry is assigned
_state_setMut(states, device_id, d) == [x \in (DOMAIN states) \cup {device_id} |-> d]
_state_set(states, device_id, d) == Put(states, device_id, d)

\* state.get("ts", "0"), state.get("floor"), state.get("h"), state.get("door")
last_ts_of(state) == Get(state, "ts", 0)
last_floor_of(state) == Get(state, "floor", None)
last_h_of(state) == Get(state, "h", NaN)
last_door_of(state) == Get(state, "door", None)

last_door_bool_of(state) ==
    LET last_door == last_door_of(state)
    IN  IF last_door = None \/ last_door = "" THEN None
        ELSE IF last_door = "1" THEN True ELSE False

NothingUseful(p) == p.fl = None /\ p.h = NaN /\ p.dopen = None

OrderingGuardMut(ts_ms, last_ts) == ts_ms < last_ts
\* dedupe / ordering guard: the sample is dropped
OrderingGuard(ts_ms, last_ts) == ts_ms <= last_ts

RisingEdgeMut(last_door_bool, dopen) == dopen = True
\* previous CLOSED -> current OPEN
RisingEdge(last_door_bool, dopen) == last_door_bool = False /\ dopen = True

floor_for_bucket_of(p, state) ==
    IF p.fl # None /\ p.fl # "" THEN p.fl
    ELSE IF last_floor_of(state) # None /\ last_floor_of(state) # ""
         THEN last_floor_of(state) ELSE "UNKNOWN"

\* Left out: no idle time is added when there is no earlier sample
CountersAfterMut(store, state, device_id, ts_ms, p) ==
    LET date_str == _local_date_str(ts_ms)
        fb == floor_for_bucket_of(p, state)
        s1 == IF RisingEdge(last_door_bool_of(state), p.dopen)
              THEN _hinc(store, _door_key(date_str, device_id), fb, 1)
              ELSE store
        dt == ts_ms - last_ts_of(state)
    IN  IF ~_movement(last_h_of(state), p.h, LC_MOVEMENT_THRESHOLD_MM) /\ dt > 0
        THEN _hinc(s1, _idle_key(date_str, device_id), fb, dt)
        ELSE s1

\* _inmem after the door-edge and idle increments of one accepted sample
CountersAfter(store, state, device_id, ts_ms, p) ==
    LET date_str == _local_date_str(ts_ms)
        fb == floor_for_bucket_of(p, state)
        s1 == IF RisingEdge(last_door_bool_of(state), p.dopen)
              THEN _hinc(store, _door_key(date_str, device_id), fb, 1)
              ELSE store
        dt == ts_ms - last_ts_of(state)
    IN  IF ~_movement(last_h_of(state), p.h, LC_MOVEMENT_THRESHOLD_MM)
           /\ dt > 0 /\ last_ts_of(state) > 0
        THEN _hinc(s1, _idle_key(date_str, device_id), fb, dt)
        ELSE s1

NewState(state, ts_ms, p) ==
    [ts |-> ts_ms,
     floor |-> floor_for_bucket_of(p, state),
     h |-> p.h,
     door |-> IF p.dopen = True THEN "1"
              ELSE IF p.dopen = False THEN "0"
              ELSE IF last_door_of(state) = None THEN "" ELSE last_door_of(state)]

process_pack_out_sample(device_id, ts_ms, p) ==
    LET state == _state_get(_state_inmem, device_id)
    IN  IF NothingUseful(p)
        THEN /\ UNCHANGED <<_inmem, _state_inmem>>
             /\ last' = [op |-> "process", dev |-> device_id, ts |-> ts_ms,
                         outcome |-> "useless"]
        ELSE IF OrderingGuard(ts_ms, last_ts_of(state))
        THEN /\ UNCHANGED <<_inmem, _state_inmem>>
             /\ last' = [op |-> "process", dev |-> device_id, ts |-> ts_ms,
                         outcome |-> "dropped"]
        ELSE /\ _inmem' = CountersAfter(_inmem, state, device_id, ts_ms, p)
             /\ _state_inmem' = _state_set(_state_inmem, device_id, NewState(state, ts_ms, p))
             /\ last' = [op |-> "process", dev |-> device_id, ts |-> ts_ms,
                         outcome |-> "accepted"]

\* The samples offered: every parsed pack at every timestamp for dev1; for dev2
\* door-only packs at a fixed floor and height, at two timestamps of one date
Samples ==
    {<<"dev1", t, p>> : t \in Timestamps, p \in ParsedPacks}
    \cup {<<"dev2", t, p>> : t \in {DayMs, DayMs + TickMs},
            p \in [fl : {"G"}, h : {0}, dopen : {True, False}]}

ProcessSample ==
    /\ \E s \in Samples : process_pack_out_sample(s[1], s[2], s[3])
    /\ UNCHANGED <<ccvars, elsewhere>>

(***************************************************************************)
(* flush_day_to_tb                                                         *)
(***************************************************************************)
\* Devices having a door or idle key for the date
\* Left out: the date in the key prefix
CandidatesMut(store, date_str) ==
    {k[3] : k \in {x \in DOMAIN store : x[1] = "lc" /\ x[4] \in {"door", "idle_ms"}}}
Candidates(store, date_str) ==
    {k[3] : k \in {x \in DOMAIN store : x[1] = "lc" /\ x[2] = date_str
                                         /\ x[4] \in {"door", "idle_ms"}}}

\* int(round(v / 1000.0)): Python rounds halves to the even neighbour
idle_sec_of(v) ==
    LET q == v \div 1000
        r == v % 1000
    IN  IF r < 500 THEN q
        ELSE IF r > 500 THEN q + 1
        ELSE IF q % 2 = 0 THEN q ELSE q + 1

\* The telemetry body written for one device
FlushPayload(store, date_str, device_id) ==
    LET door_counts == _hgetall(store, _door_key(date_str, device_id))
        idle_ms == _hgetall(store, _idle_key(date_str, device_id))
    IN  [door_opens |-> door_counts,
         idle_sec |-> [k \in DOMAIN idle_ms |-> idle_sec_of(idle_ms[k])]]

\* Outcomes of requests.post: a 2xx/3xx answer, a status >= 400, an exception
PostOutcomes == {"ok", "http_error", "raise"}

ClearDay(store, date_str, device_id) ==
    Pop(Pop(store, _door_key(date_str, device_id)), _idle_key(date_str, device_id))

\* One pass of the loop body for device_id, on the running result acc
FlushOneMut(acc, date_str, device_id, outcome) ==
    [store |-> ClearDay(acc.store, date_str, device_id),
     attempted |-> acc.attempted \cup {device_id},
     failed |-> IF outcome = "ok" THEN acc.failed ELSE acc.failed \cup {device_id},
     flushed |-> IF outcome = "ok" THEN acc.flushed + 1 ELSE acc.flushed,
     raised |-> outcome = "raise"]
\* Left out: the two pops after a successful write
FlushOneMutKeep(acc, date_str, device_id, outcome) ==
    IF outcome = "raise"
    THEN [acc EXCEPT !.attempted = @ \cup {device_id},
                     !.failed = @ \cup {device_id},
                     !.raised = TRUE]
    ELSE IF outcome = "http_error"
    THEN [acc EXCEPT !.attempted = @ \cup {device_id},
                     !.failed = @ \cup {device_id}]
    ELSE [acc EXCEPT !.attempted = @ \cup {device_id},
                     !.flushed = @ + 1]
FlushOne(acc, date_str, device_id, outcome) ==
    IF outcome = "raise"
    THEN [acc EXCEPT !.attempted = @ \cup {device_id},
                     !.failed = @ \cup {device_id},
                     !.raised = TRUE]
    ELSE IF outcome = "http_error"
    THEN [acc EXCEPT !.attempted = @ \cup {device_id},
                     !.failed = @ \cup {device_id}]
    ELSE [acc EXCEPT !.attempted = @ \cup {device_id},
                     !.flushed = @ + 1,
                     !.store = ClearDay(@, date_str, device_id)]

\* for device_id in candidates: ..., in the iteration order of the set; an
\* exception leaves the loop
RECURSIVE FlushLoop(_, _, _, _)
FlushLoop(acc, date_str, order, outcome) ==
    IF order = <<>> \/ acc.raised THEN acc
    ELSE FlushLoop(FlushOne(acc, date_str, Head(order), outcome[Head(order)]),
                   date_str, Tail(order), outcome)

Orders(S) == {o \in [1..Cardinality(S) -> S] : \A i, j \in DOMAIN o : i # j => o[i] # o[j]}

flush_day_to_tb(date_str, order, outcome) ==
    LET acc0 == [store |-> _inmem, attempted |-> {}, failed |-> {}, flushed |-> 0,
                 raised |-> FALSE]
        r == FlushLoop(acc0, date_str, order, outcome)
    IN  /\ _inmem' = r.store
        /\ UNCHANGED _state_inmem
        /\ last' = [op |-> "flush", date |-> date_str, attempted |-> r.attempted,
                    failed |-> r.failed, flushed |-> r.flushed, raised |-> r.raised]

\* No candidates: return 0 before any external call
FlushNothing ==
    \E date_str \in Dates :
        /\ Candidates(_inmem, date_str) = {}
        /\ UNCHANGED <<_inmem, _state_inmem>>
        /\ last' = [op |-> "flush", date |-> date_str, attempted |-> {},
                    failed |-> {}, flushed |-> 0, raised |-> FALSE]
        /\ UNCHANGED <<ccvars, elsewhere>>

Flush ==
    \E date_str \in Dates :
        /\ Candidates(_inmem, date_str) # {}
        /\ \E order \in Orders(Candidates(_inmem, date_str)),
              outcome \in [Candidates(_inmem, date_str) -> PostOutcomes] :
                flush_day_to_tb(date_str, order, outcome)
        /\ UNCHANGED <<ccvars, elsewhere>>

\* Module state at import
AlarmInit ==
    /\ _device_id_cache = EmptyMap
    /\ _floor_meta_cache = EmptyMap
    /\ _device_door_state = EmptyMap
    /\ _door_open_since = EmptyMap
    /\ _bucket_counts = EmptyMap
    /\ _movement_state = EmptyMap
    /\ open_alarms = [d \in DeviceIds |-> 0]
    /\ now = 0

NoQuery == [op |-> "none"]

\* Module state at import
LCInit ==
    /\ _inmem = EmptyMap
    /\ _state_inmem = EmptyMap
    /\ last = [op |-> "init"]

\* alarm_aggregation_scheduler at import: lines 26-28 and 142, no thread yet
SchedInit ==
    /\ _stop_event = FALSE /\ stop_event = FALSE
    /\ _thread = 0 /\ _loop_started = FALSE
    /\ loops = <<>> /\ joiner = "idle" /\ agg = "none"

\* No request thread and no flush thread is running
NoThreads ==
    /\ pc = EmptyMap /\ loc = EmptyMap /\ gen = EmptyMap
    /\ incs = EmptyMap /\ written = EmptyMap /\ calls = EmptyMap
    /\ SchedInit

InitLC == LCInit /\ NoThreads /\ AlarmInit /\ query = NoQuery

NextLC == ProcessSample \/ FlushNothing \/ Flush

SpecLC == InitLC /\ [][NextLC]_vars

(***************************************************************************)
(* Claims on the sequential live-counter model (SpecLC)                    *)
(***************************************************************************)
IsProcess(l) == l.op = "process"
IsFlush(l) == l.op = "flush"

\* C3: a process_pack_out_sample call whose timestamp is <= the timestamp
\* already recorded for the device changes neither the per-device state nor
\* any daily counter.
C3_ReplayIsNoOp ==
    [][(IsProcess(last') /\ last'.dev \in DOMAIN _state_inmem
            /\ last'.ts <= _state_inmem[last'.dev].ts)
        => (_state_inmem' = _state_inmem /\ _inmem' = _inmem)]_vars

\* C3 witness: a sample was dropped by the ordering guard on a device that
\* has recorded state and counters.
C3_Witness ==
    /\ IsProcess(last) /\ last.outcome = "dropped"
    /\ last.dev \in DOMAIN _state_inmem
    /\ last.ts <= _state_inmem[last.dev].ts
    /\ \E k \in DOMAIN _inmem : k[3] = last.dev

DoorKeys == {k \in {_door_key(dt, d) : dt \in Dates, d \in DeviceIds}: TRUE}
DoorCount(store, k, f) == Get(Get(store, k, EmptyMap), f, 0)
AllFloors == FloorLabels \cup {"UNKNOWN"}

\* The recorded door of a device went from closed ("0") to open ("1")
ClosedToOpen(d) ==
    /\ d \in DOMAIN _state_inmem /\ _state_inmem[d].door = "0"
    /\ d \in DOMAIN _state_inmem' /\ _state_inmem'[d].door = "1"

\* C4: over process_pack_out_sample calls the door-open counter grows by
\* exactly 1 on each closed-to-open transition of the device's door, in the
\* bucket of the sample's local date and current floor label, and no other
\* door-open count changes.
C4_DoorEdgeCounted ==
    [][IsProcess(last') =>
        \A k \in DoorKeys, f \in AllFloors :
            DoorCount(_inmem', k, f) =
                DoorCount(_inmem, k, f)
                + (IF /\ ClosedToOpen(last'.dev)
                      /\ k = _door_key(_local_date_str(last'.ts), last'.dev)
                      /\ f = _state_inmem'[last'.dev].floor
                   THEN 1 ELSE 0)]_vars

\* C4 witness: an accepted sample has just opened a door that was recorded
\* closed, and its date/floor bucket holds a count.
C4_Witness ==
    /\ IsProcess(last) /\ last.outcome = "accepted"
    /\ _state_inmem[last.dev].door = "1"
    /\ DoorCount(_inmem, _door_key(_local_date_str(last.ts), last.dev),
                 _state_inmem[last.dev].floor) >= 1

\* C5: a device whose write failed in flush_day_to_tb keeps its door-open and
\* idle counters of that date exactly as they were, so the same payload would
\* be sent by the next flush.
C5_FailedFlushKeepsCounters ==
    [][IsFlush(last') =>
        \A d \in last'.failed :
            /\ (_door_key(last'.date, d) \in DOMAIN _inmem'
                    <=> _door_key(last'.date, d) \in DOMAIN _inmem)
            /\ (_idle_key(last'.date, d) \in DOMAIN _inmem'
                    <=> _idle_key(last'.date, d) \in DOMAIN _inmem)
            /\ _hgetall(_inmem', _door_key(last'.date, d))
                    = _hgetall(_inmem, _door_key(last'.date, d))
            /\ _hgetall(_inmem', _idle_key(last'.date, d))
                    = _hgetall(_inmem, _idle_key(last'.date, d))
            /\ FlushPayload(_inmem', last'.date, d) = FlushPayload(_inmem, last'.date, d)]_vars

\* C5 witness: a flush in which a device's write failed, the device still
\* holding counters of the flushed date.
C5_Witness ==
    /\ IsFlush(last)
    /\ \E d \in last.failed :
          /\ _door_key(last.date, d) \in DOMAIN _inmem
          /\ _idle_key(last.date, d) \in DOMAIN _inmem

\* C6: in one flush_day_to_tb cycle a write failure of one device is
\* isolated: every candidate device of the date has its write attempted.
C6_FlushFailureIsolated ==
    [][IsFlush(last') => last'.attempted = Candidates(_inmem, last'.date)]_vars

(***************************************************************************)
(* Concurrent runs: request threads in process_pack_out_sample and the     *)
(* scheduler thread in flush_day_to_tb share _inmem and _state_inmem with  *)
(* no lock; a step is one access to a shared dict.                         *)
(***************************************************************************)
MaxCalls == 2
MaxFlushes == 1

Workers == {"w1", "w2"}
Flusher == "flusher"
Threads == Workers \cup {Flusher}

\* The samples request threads process: door-only packs of one device
ConcSamples ==
    {<<"dev1", t, p>> : t \in Timestamps, p \in [fl : {"G"}, h : {0}, dopen : {True, False}]}

NoLoc ==
    [dev |-> None, ts |-> 0, p |-> [fl |-> None, h |-> NaN, dopen |-> None],
     state |-> EmptyMap, g |-> 0, v |-> 0,
     date |-> 0, todo |-> <<>>, door_counts |-> EmptyMap, idle_ms |-> EmptyMap]

Goto(t, label) == pc' = [pc EXCEPT ![t] = label]
\* return: the thread's locals are gone
Return(t) == pc' = [pc EXCEPT ![t] = "idle"] /\ loc' = [loc EXCEPT ![t] = NoLoc]

\* h = _inmem.setdefault(store_key, {}); h.get(field, 0): the thread keeps the
\* dict it got (by identity) and the value it read
HincRead(t, store_key, field) ==
    /\ _inmem' = IF store_key \in DOMAIN _inmem THEN _inmem
                 ELSE Put(_inmem, store_key, EmptyMap)
    /\ loc' = [loc EXCEPT ![t].g = Get(gen, store_key, 0),
                          ![t].v = Get(Get(_inmem, store_key, EmptyMap), field, 0)]

\* h[field] = <value read> + delta: visible only if the dict the thread holds
\* is still the one stored under the key
HincWrite(t, store_key, field, delta) ==
    /\ _inmem' = IF store_key \in DOMAIN _inmem /\ Get(gen, store_key, 0) = loc[t].g
                 THEN Put(_inmem, store_key, Put(_inmem[store_key], field, loc[t].v + delta))
                 ELSE _inmem
    /\ incs' = Put(incs, <<store_key, field>>, Get(incs, <<store_key, field>>, 0) + delta)

W_Call(t) ==
    /\ pc[t] = "idle" /\ calls[t] < MaxCalls
    /\ \E s \in ConcSamples :
          IF NothingUseful(s[3])
          THEN UNCHANGED <<pc, loc>>
          ELSE /\ loc' = [loc EXCEPT ![t] = [NoLoc EXCEPT !.dev = s[1], !.ts = s[2], !.p = s[3]]]
               /\ Goto(t, "get")
    /\ calls' = [calls EXCEPT ![t] = @ + 1]
    /\ UNCHANGED <<_inmem, _state_inmem, last, gen, incs, written, elsewhere>>

W_Get(t) ==
    /\ pc[t] = "get"
    /\ LET state == _state_get(_state_inmem, loc[t].dev)
       IN  IF OrderingGuard(loc[t].ts, last_ts_of(state))
           THEN Return(t)
           ELSE Goto(t, "door") /\ loc' = [loc EXCEPT ![t].state = state]
    /\ UNCHANGED <<_inmem, _state_inmem, last, gen, incs, written, calls, elsewhere>>

W_Door(t) ==
    /\ pc[t] = "door"
    /\ IF RisingEdge(last_door_bool_of(loc[t].state), loc[t].p.dopen)
       THEN /\ HincRead(t, _door_key(_local_date_str(loc[t].ts), loc[t].dev),
                        floor_for_bucket_of(loc[t].p, loc[t].state))
            /\ Goto(t, "door_w")
       ELSE Goto(t, "idle_chk") /\ UNCHANGED <<_inmem, loc>>
    /\ UNCHANGED <<_state_inmem, last, gen, incs, written, calls, elsewhere>>

W_DoorW(t) ==
    /\ pc[t] = "door_w"
    /\ HincWrite(t, _door_key(_local_date_str(loc[t].ts), loc[t].dev),
                 floor_for_bucket_of(loc[t].p, loc[t].state), 1)
    /\ Goto(t, "idle_chk")
    /\ UNCHANGED <<_state_inmem, last, loc, gen, written, calls, elsewhere>>

W_Idle(t) ==
    /\ pc[t] = "idle_chk"
    /\ IF /\ ~_movement(last_h_of(loc[t].state), loc[t].p.h, LC_MOVEMENT_THRESHOLD_MM)
          /\ loc[t].ts - last_ts_of(loc[t].state) > 0
          /\ last_ts_of(loc[t].state) > 0
       THEN /\ HincRead(t, _idle_key(_local_date_str(loc[t].ts), loc[t].dev),
                        floor_for_bucket_of(loc[t].p, loc[t].state))
            /\ Goto(t, "idle_w")
       ELSE Goto(t, "set") /\ UNCHANGED <<_inmem, loc>>
    /\ UNCHANGED <<_state_inmem, last, gen, incs, written, calls, elsewhere>>

W_IdleW(t) ==
    /\ pc[t] = "idle_w"
    /\ HincWrite(t, _idle_key(_local_date_str(loc[t].ts), loc[t].dev),
                 floor_for_bucket_of(loc[t].p, loc[t].state),
                 loc[t].ts - last_ts_of(loc[t].state))
    /\ Goto(t, "set")
    /\ UNCHANGED <<_state_inmem, last, loc, gen, written, calls, elsewhere>>

W_Set(t) ==
    /\ pc[t] = "set"
    /\ _state_inmem' = _state_set(_state_inmem, loc[t].dev,
                                  NewState(loc[t].state, loc[t].ts, loc[t].p))
    /\ Return(t)
    /\ UNCHANGED <<_inmem, last, gen, incs, written, calls, elsewhere>>

\* candidates = ...; if not candidates: return 0
F_Start ==
    /\ pc[Flusher] = "idle" /\ calls[Flusher] < MaxFlushes
    /\ \E date_str \in Dates :
          IF Candidates(_inmem, date_str) = {}
          THEN UNCHANGED <<pc, loc>>
          ELSE \E order \in Orders(Candidates(_inmem, date_str)) :
                  /\ loc' = [loc EXCEPT ![Flusher] =
                                [NoLoc EXCEPT !.date = date_str, !.todo = order]]
                  /\ Goto(Flusher, "read_door")
    /\ calls' = [calls EXCEPT ![Flusher] = @ + 1]
    /\ UNCHANGED <<_inmem, _state_inmem, last, gen, incs, written, elsewhere>>

F_ReadDoor ==
    /\ pc[Flusher] = "read_door"
    /\ loc' = [loc EXCEPT ![Flusher].door_counts =
                  _hgetall(_inmem, _door_key(loc[Flusher].date, Head(loc[Flusher].todo)))]
    /\ Goto(Flusher, "read_idle")
    /\ UNCHANGED <<_inmem, _state_inmem, last, gen, incs, written, calls, elsewhere>>

F_ReadIdle ==
    /\ pc[Flusher] = "read_idle"
    /\ loc' = [loc EXCEPT ![Flusher].idle_ms =
                  _hgetall(_inmem, _idle_key(loc[Flusher].date, Head(loc[Flusher].todo)))]
    /\ Goto(Flusher, "post")
    /\ UNCHANGED <<_inmem, _state_inmem, last, gen, incs, written, calls, elsewhere>>

AddAll(w, store_key, h) ==
    [x \in (DOMAIN w) \cup {<<store_key, f>> : f \in DOMAIN h} |->
        Get(w, x, 0) + (IF x[1] = store_key /\ x[2] \in DOMAIN h THEN h[x[2]] ELSE 0)]

\* the next device of the loop, or the return after the last one
NextDevice(todo) ==
    IF Tail(todo) = <<>> THEN Return(Flusher)
    ELSE /\ Goto(Flusher, "read_door")
         /\ loc' = [loc EXCEPT ![Flusher].todo = Tail(@),
                               ![Flusher].door_counts = EmptyMap,
                               ![Flusher].idle_ms = EmptyMap]

\* requests.post(...): an exception leaves flush_day_to_tb, a status >= 400
\* continues with the next device, otherwise the values read are written
F_Post ==
    /\ pc[Flusher] = "post"
    /\ \E outcome \in PostOutcomes :
          IF outcome = "raise"
          THEN Return(Flusher) /\ UNCHANGED written
          ELSE IF outcome = "http_error"
          THEN NextDevice(loc[Flusher].todo) /\ UNCHANGED written
          ELSE /\ Goto(Flusher, "pop_door")
               /\ written' =
                    AddAll(AddAll(written,
                                  _door_key(loc[Flusher].date, Head(loc[Flusher].todo)),
                                  loc[Flusher].door_counts),
                           _idle_key(loc[Flusher].date, Head(loc[Flusher].todo)),
                           loc[Flusher].idle_ms)
               /\ UNCHANGED loc
    /\ UNCHANGED <<_inmem, _state_inmem, last, gen, incs, calls, elsewhere>>

PopKey(store_key) ==
    /\ _inmem' = Pop(_inmem, store_key)
    /\ gen' = IF store_key \in DOMAIN _inmem
              THEN Put(gen, store_key, Get(gen, store_key, 0) + 1) ELSE gen

F_PopDoor ==
    /\ pc[Flusher] = "pop_door"
    /\ PopKey(_door_key(loc[Flusher].date, Head(loc[Flusher].todo)))
    /\ Goto(Flusher, "pop_idle")
    /\ UNCHANGED <<_state_inmem, last, loc, incs, written, calls, elsewhere>>

F_PopIdle ==
    /\ pc[Flusher] = "pop_idle"
    /\ PopKey(_idle_key(loc[Flusher].date, Head(loc[Flusher].todo)))
    /\ NextDevice(loc[Flusher].todo)
    /\ UNCHANGED <<_state_inmem, last, incs, written, calls, elsewhere>>

InitConc ==
    /\ LCInit
    /\ pc = [t \in Threads |-> "idle"]
    /\ loc = [t \in Threads |-> NoLoc]
    /\ gen = EmptyMap /\ incs = EmptyMap /\ written = EmptyMap
    /\ calls = [t \in Threads |-> 0]
    /\ AlarmInit /\ query = NoQuery /\ SchedInit

WorkerStep ==
    \E t \in Workers :
        W_Call(t) \/ W_Get(t) \/ W_Door(t) \/ W_DoorW(t) \/ W_Idle(t) \/ W_IdleW(t) \/ W_Set(t)

FlusherStep == F_Start \/ F_ReadDoor \/ F_ReadIdle \/ F_Post \/ F_PopDoor \/ F_PopIdle

NextConc == WorkerStep \/ FlusherStep

SpecConc == InitConc /\ [][NextConc]_vars

(***************************************************************************)
(* Claims on the concurrent live-counter model (SpecConc)                  *)
(***************************************************************************)
Quiescent == \A t \in Threads : pc[t] = "idle"
Stored(x) == Get(Get(_inmem, x[1], EmptyMap), x[2], 0)

\* C7: whatever the interleaving of flush_day_to_tb with process_pack_out_sample
\* (here: with one request thread), once both are back at rest every increment
\* is either in the values a successful flush wrote or still in _inmem.
C7_NoIncrementLost ==
    (Quiescent /\ calls["w2"] = 0) =>
        \A x \in (DOMAIN incs) \cup (DOMAIN written) :
            Get(incs, x, 0) = Get(written, x, 0) + Stored(x)

\* C8: under concurrent process_pack_out_sample calls of one device the recorded
\* last-sample timestamp never decreases.
C8_TimestampMonotone ==
    [][\A d \in DOMAIN _state_inmem : _state_inmem'[d].ts >= _state_inmem[d].ts]_vars

(***************************************************************************)
(* pack_format.py: the parsed pack as check_alarm reads it                 *)
(***************************************************************************)
\* A parsed pack: num holds the keys whose value is a finite number, str the
\* keys whose value stayed a string ({} is the pack without any key=value).
\* The request's pack_raw is missing when present is FALSE.
NoFloat == -2000000     \* get_float's None
NoBit == -1             \* door_to_bit's None

get_float(parsed, key, default) ==
    IF key \in DOMAIN parsed.num THEN parsed.num[key] ELSE default

\* val.strip().upper() on the door words used here
StripUpper(val) ==
    CASE val = "open" -> "OPEN"
      [] val = " CLOSED " -> "CLOSED"
      [] OTHER -> val

\* _to_int on the door words used here: NoBit stands for None
_to_int(d) ==
    CASE d = "1" -> 1
      [] d = "0" -> 0
      [] OTHER -> NoBit

door_to_bit(val) ==
    IF val = None THEN NoBit
    ELSE LET d == StripUpper(val) IN
         IF d = "OPEN" THEN 1
         ELSE IF d \in {"CLOSED", "CLOSE"} THEN 0
         ELSE IF _to_int(d) # NoBit THEN (IF _to_int(d) # 0 THEN 1 ELSE 0)
         ELSE NoBit

(***************************************************************************)
(* alarm_logic.py: constants and core math                                 *)
(***************************************************************************)
DOOR_OPEN_THRESHOLD_SEC == 15
TOLERANCE_MM == 10
BUCKET_HALF_MM == 50
MOVEMENT_DEADBAND_MM == 20
FLOOR_CACHE_TTL_SEC == 300

EnvNames == <<"temperature", "humidity">>
Metrics == <<"x_vibe", "y_vibe", "z_vibe", "x_jerk", "y_jerk", "z_jerk">>

THRESHOLDS ==
    [k \in {"humidity", "temperature", "x_jerk", "y_jerk", "z_jerk",
            "x_vibe", "y_vibe", "z_vibe"} |->
        IF k \in {"humidity", "temperature"} THEN 50
        ELSE IF k \in {"z_jerk", "z_vibe"} THEN 15 ELSE 5]

\* the second key check_alarm falls back to
FallbackKey ==
    [k \in {"temperature", "humidity", "x_vibe", "y_vibe", "z_vibe",
            "x_jerk", "y_jerk", "z_jerk"} |->
        CASE k = "temperature" -> "mpu_temp_val"
          [] k = "humidity" -> "humidity_val"
          [] k = "x_vibe" -> "accel_x_val"
          [] k = "y_vibe" -> "accel_y_val"
          [] k = "z_vibe" -> "accel_z_val"
          [] k = "x_jerk" -> "gyro_x_val"
          [] k = "y_jerk" -> "gyro_y_val"
          [] OTHER -> "gyro_z_val"]

MetricValue(parsed, k) == get_float(parsed, k, get_float(parsed, FallbackKey[k], NoFloat))

DefaultBoundaries == <<0, 3000, 6000, 9000, 12000, 15000, 18000>>

Max(a, b) == IF a >= b THEN a ELSE b

\* Left out: height_raw is looked at before laser_val
_compute_heightMut(parsed, boundaries) ==
    LET h == get_float(parsed, "h", NoFloat)
        laser == get_float(parsed, "laser_val", NoFloat)
        hr == get_float(parsed, "height_raw", NoFloat)
    IN  IF h # NoFloat THEN h
        ELSE IF hr # NoFloat THEN hr
        ELSE IF laser # NoFloat /\ boundaries # <<>>
             THEN Max(0, boundaries[Len(boundaries)] - laser)
        ELSE 0

_compute_height(parsed, boundaries) ==
    LET h == get_float(parsed, "h", NoFloat)
        laser == get_float(parsed, "laser_val", NoFloat)
        hr == get_float(parsed, "height_raw", NoFloat)
    IN  IF h # NoFloat THEN h
        ELSE IF laser # NoFloat /\ boundaries # <<>>
             THEN Max(0, boundaries[Len(boundaries)] - laser)
        ELSE IF hr # NoFloat THEN hr
        ELSE 0

\* Changed: a hit returns the index of the interval's upper boundary
_floor_indexMut(h, boundaries) ==
    IF Len(boundaries) < 2 THEN 0
    ELSE LET hits == {i \in 1..(Len(boundaries) - 1) :
                        boundaries[i] <= h /\ h < boundaries[i + 1]}
         IN  IF hits # {}
             THEN CHOOSE i \in hits : \A j \in hits : i <= j
             ELSE Len(boundaries) - 2

\* the 0-based index of the first i in range(len-1) with
\* boundaries[i] <= h < boundaries[i+1]; len-2 when the loop finds none
_floor_index(h, boundaries) ==
    IF Len(boundaries) < 2 THEN 0
    ELSE LET hits == {i \in 1..(Len(boundaries) - 1) :
                        boundaries[i] <= h /\ h < boundaries[i + 1]}
         IN  IF hits # {}
             THEN (CHOOSE i \in hits : \A j \in hits : i <= j) - 1
             ELSE Len(boundaries) - 2

\* labels[fi] if 0 <= fi < len(labels) else str(fi)
FloorLabelOf(labels, fi) ==
    IF 0 <= fi /\ fi < Len(labels) THEN labels[fi + 1] ELSE ToString(fi)

\* returns (mismatch, deviation, floor_center); fi is a 0-based index
_floor_mismatch(height, fi, boundaries) ==
    IF fi >= Len(boundaries)
    THEN [mismatch |-> TRUE, deviation |-> 0, center |-> 0]
    ELSE LET floor_center == boundaries[fi + 1]
             deviation == height - floor_center
         IN  [mismatch |-> Abs(deviation) > TOLERANCE_MM,
              deviation |-> deviation, center |-> floor_center]

\* Left out: the first call compares with height 0 instead of returning (S, I, 0)
_derive_motionMut(mv, device, h) ==
    LET vel == h - Get(mv, device, 0) IN
    [mv |-> Put(mv, device, h),
     dirc |-> IF vel > MOVEMENT_DEADBAND_MM THEN "U"
              ELSE IF vel < -MOVEMENT_DEADBAND_MM THEN "D" ELSE "S",
     status |-> IF vel > MOVEMENT_DEADBAND_MM \/ vel < -MOVEMENT_DEADBAND_MM
                THEN "M" ELSE "I",
     vel |-> vel]

\* Left out: a velocity of exactly the deadband is idle
_derive_motionMutBand(mv, device, h) ==
    IF device \notin DOMAIN mv
    THEN [mv |-> Put(mv, device, h), dirc |-> "S", status |-> "I", vel |-> 0]
    ELSE LET vel == h - mv[device] IN
         [mv |-> Put(mv, device, h),
          dirc |-> IF vel >= MOVEMENT_DEADBAND_MM THEN "U"
                   ELSE IF vel <= -MOVEMENT_DEADBAND_MM THEN "D" ELSE "S",
          status |-> IF vel >= MOVEMENT_DEADBAND_MM \/ vel <= -MOVEMENT_DEADBAND_MM
                     THEN "M" ELSE "I",
          vel |-> vel]

\* _movement_state is device -> prev_h (last_ts is written and never read)
_derive_motion(mv, device, h) ==
    IF device \notin DOMAIN mv
    THEN [mv |-> Put(mv, device, h), dirc |-> "S", status |-> "I", vel |-> 0]
    ELSE LET vel == h - mv[device] IN
         [mv |-> Put(mv, device, h),
          dirc |-> IF vel > MOVEMENT_DEADBAND_MM THEN "U"
                   ELSE IF vel < -MOVEMENT_DEADBAND_MM THEN "D" ELSE "S",
          status |-> IF vel > MOVEMENT_DEADBAND_MM \/ vel < -MOVEMENT_DEADBAND_MM
                     THEN "M" ELSE "I",
          vel |-> vel]

(***************************************************************************)
(* alarm_logic.py: calls to the platform                                   *)
(*                                                                         *)
(* One check_alarm request meets one platform behaviour ext:               *)
(*   ext.lookup    the device lookup: "ok", "http_error" (a status that is *)
(*                 not ok, or a body without id) or "raise" (requests.get  *)
(*                 raises)                                                 *)
(*   ext.attrs     the attribute fetch: raises, or the three attributes    *)
(*   ext.post      the status class of an answered alarm POST              *)
(*   ext.raise_at  the alarm POST of this request (1st, 2nd, ...) at which *)
(*                 requests.post raises; 0 when none does                  *)
(***************************************************************************)
\* e evaluated once and handed to F
Bind(e, F(_)) == CHOOSE r \in {F(v) : v \in {e}} : TRUE

DeviceIdOf(device) == "id-" \o device
NoHome == -3000000      \* home_floor None

_get_device_id(dc, device, lookup) ==
    IF device \in DOMAIN dc
    THEN [dc |-> dc, id |-> dc[device], raised |-> FALSE]
    ELSE IF lookup = "ok"
    THEN [dc |-> Put(dc, device, DeviceIdOf(device)), id |-> DeviceIdOf(device),
          raised |-> FALSE]
    ELSE [dc |-> dc, id |-> None, raised |-> (lookup = "raise")]

\* A floor_boundaries token: "int" is a number, "bad" fails the isdigit filter,
\* "trap" passes the filter and makes int() raise (as "--5" does)
IntTok(v) == [k |-> "int", v |-> v]
BadTok == [k |-> "bad", v |-> 0]
TrapTok == [k |-> "trap", v |-> 0]

RECURSIVE ParseBoundaries(_)
ParseBoundaries(toks) ==
    IF toks = <<>> THEN <<>>
    ELSE IF Head(toks).k = "int" THEN <<Head(toks).v>> \o ParseBoundaries(Tail(toks))
    ELSE ParseBoundaries(Tail(toks))

\* lines 146-157: the triple after the try block
ParseAttrs(attrs) ==
    IF attrs.raise \/ (attrs.fb_str /\ \E i \in DOMAIN attrs.fb : attrs.fb[i].k = "trap")
    THEN [boundaries |-> <<>>, labels |-> <<>>, home_floor |-> NoHome]
    ELSE [boundaries |-> IF attrs.fb_str THEN ParseBoundaries(attrs.fb) ELSE <<>>,
          labels |-> IF attrs.fl_str THEN attrs.fl ELSE <<>>,
          home_floor |-> attrs.hf]

\* [str(i) for i in range(max(0, n))]
DefaultLabels(n) == [i \in 1..Max(0, n) |-> ToString(i - 1)]

\* The state a request works on, and what the request has done so far
Machine ==
    [dc |-> _device_id_cache, fm |-> _floor_meta_cache, ds |-> _device_door_state,
     os |-> _door_open_since, bk |-> _bucket_counts, mv |-> _movement_state,
     oa |-> open_alarms,
     req |-> <<>>, posted |-> <<>>, created |-> <<>>, ev |-> <<>>, aborted |-> FALSE]

_get_floor_meta(m, device, ext, t) ==
    IF device \in DOMAIN m.fm /\ t - m.fm[device].ts < FLOOR_CACHE_TTL_SEC
    THEN [m |-> m, boundaries |-> m.fm[device].boundaries,
          labels |-> m.fm[device].labels, home_floor |-> m.fm[device].home_floor]
    ELSE
    Bind(_get_device_id(m.dc, device, ext.lookup), LAMBDA g :
    IF g.raised
    THEN [m |-> [m EXCEPT !.aborted = TRUE], boundaries |-> <<>>, labels |-> <<>>,
          home_floor |-> NoHome]
    ELSE
    Bind(IF g.id # None THEN ParseAttrs(ext.attrs)
         ELSE [boundaries |-> <<>>, labels |-> <<>>, home_floor |-> NoHome], LAMBDA got :
    Bind(IF got.boundaries = <<>> THEN DefaultBoundaries ELSE got.boundaries,
         LAMBDA boundaries :
    Bind(IF got.labels = <<>> THEN DefaultLabels(Len(boundaries) - 1) ELSE got.labels,
         LAMBDA labels0 :
    Bind(SubSeq(labels0, 1, IF Len(labels0) < Max(0, Len(boundaries) - 1)
                            THEN Len(labels0) ELSE Max(0, Len(boundaries) - 1)),
         LAMBDA labels :
        [m |-> [m EXCEPT !.dc = g.dc,
                         !.fm = Put(m.fm, device,
                                    [boundaries |-> boundaries, labels |-> labels,
                                     home_floor |-> got.home_floor, ts |-> t])],
         boundaries |-> boundaries, labels |-> labels,
         home_floor |-> got.home_floor])))))

\* An alarm event or alarm request, with the fields the claims read
Alarm(type, pos, dev_mm) == [type |-> type, pos |-> pos, dev_mm |-> dev_mm]

_create_alarm_on_tb(m, device, alarm, ext) ==
    IF m.aborted THEN m
    ELSE
    Bind(_get_device_id(m.dc, device, ext.lookup), LAMBDA g :
    Bind([m EXCEPT !.dc = g.dc, !.req = Append(@, alarm)], LAMBDA asked :
        IF g.raised THEN [asked EXCEPT !.aborted = TRUE]
        ELSE IF g.id = None THEN asked
        ELSE IF ext.raise_at = Len(m.posted) + 1
        THEN [asked EXCEPT !.posted = Append(@, alarm), !.aborted = TRUE]
        ELSE [asked EXCEPT !.posted = Append(@, alarm),
                           !.created = IF ext.post = "ok" THEN Append(@, alarm) ELSE @]))

(***************************************************************************)
(* alarm_logic.py: the checks of one sample                                *)
(***************************************************************************)
Event(code, pos, dev_mm) == [code |-> code, pos |-> pos, dev_mm |-> dev_mm]

EnvCode == [k \in {"temperature", "humidity"} |->
                IF k = "temperature" THEN "TEMPERATURE_HIGH" ELSE "HUMIDITY_HIGH"]
EnvAlarm == [k \in {"temperature", "humidity"} |->
                IF k = "temperature" THEN "Temperature Alarm" ELSE "Humidity Alarm"]

\* lines 314-320, for the names from position i on
RECURSIVE EnvLoop(_, _, _, _, _)
EnvLoop(m, device, parsed, ext, i) ==
    IF m.aborted \/ i > Len(EnvNames) THEN m
    ELSE Bind(MetricValue(parsed, EnvNames[i]), LAMBDA val :
         IF val # NoFloat /\ val > THRESHOLDS[EnvNames[i]]
         THEN Bind(_create_alarm_on_tb(
                       [m EXCEPT !.ev = Append(@, Event(EnvCode[EnvNames[i]], "", 0))],
                       device, Alarm(EnvAlarm[EnvNames[i]], "", 0), ext),
                   LAMBDA m1 : EnvLoop(m1, device, parsed, ext, i + 1))
         ELSE EnvLoop(m, device, parsed, ext, i + 1))

RemoveAt(s, i) == SubSeq(s, 1, i - 1) \o SubSeq(s, i + 1, Len(s))

\* _bucket_counts is (device, metric) -> list of [center, count]
BucketsOf(bk, device, metric) == Get(bk, <<device, metric>>, <<>>)

\* Left out: a center exactly BUCKET_HALF_MM away matches
FirstMatchMut(buckets, h) ==
    LET hits == {i \in 1..Len(buckets) : Abs(buckets[i].center - h) < BUCKET_HALF_MM}
    IN  IF hits = {} THEN 0 ELSE CHOOSE i \in hits : \A j \in hits : i <= j

\* the first bucket in list order whose center is within BUCKET_HALF_MM of h; 0 if none
FirstMatch(buckets, h) ==
    LET hits == {i \in 1..Len(buckets) : Abs(buckets[i].center - h) <= BUCKET_HALF_MM}
    IN  IF hits = {} THEN 0 ELSE CHOOSE i \in hits : \A j \in hits : i <= j

\* line 243 runs only when the call of lines 234-242 returned
BucketRemoved(m1, kept, removed) == IF m1.aborted THEN kept ELSE removed

_bucket_check_and_trigger(m, device, metric, value, h, ext) ==
    Bind(BucketsOf(m.bk, device, metric), LAMBDA buckets :
    Bind(FirstMatch(buckets, h), LAMBDA i :
        IF i = 0
        THEN [m EXCEPT !.bk = Put(m.bk, <<device, metric>>,
                                  Append(buckets, [center |-> h, count |-> 1]))]
        ELSE Bind([buckets EXCEPT ![i].count = @ + 1], LAMBDA bumped :
             IF bumped[i].count >= 3
             THEN Bind(_create_alarm_on_tb(
                           [m EXCEPT !.bk = Put(m.bk, <<device, metric>>, bumped)],
                           device, Alarm(metric \o " Alarm", "", 0), ext),
                       LAMBDA m1 :
                           [m1 EXCEPT !.bk = Put(m1.bk, <<device, metric>>,
                                                 BucketRemoved(m1, bumped,
                                                               RemoveAt(bumped, i)))])
             ELSE [m EXCEPT !.bk = Put(m.bk, <<device, metric>>, bumped)])))

\* lines 331-333, for the metrics from position i on
RECURSIVE MetricLoop(_, _, _, _, _, _)
MetricLoop(m, device, parsed, h, ext, i) ==
    IF m.aborted \/ i > Len(Metrics) THEN m
    ELSE Bind(MetricValue(parsed, Metrics[i]), LAMBDA val :
         IF val # NoFloat /\ val > THRESHOLDS[Metrics[i]]
         THEN Bind(_bucket_check_and_trigger(m, device, Metrics[i], val, h, ext),
                   LAMBDA m1 : MetricLoop(m1, device, parsed, h, ext, i + 1))
         ELSE MetricLoop(m, device, parsed, h, ext, i + 1))

\* lines 336-341
DoorOpenWhileMoving(m, device, status, door_bit, ext) ==
    IF m.aborted \/ ~(status = "M" /\ door_bit = 1) THEN m
    ELSE _create_alarm_on_tb(
             [m EXCEPT !.ev = Append(@, Event("DOOR_OPEN_WHILE_MOVING", "", 0))],
             device, Alarm("Door Open While Moving", "", 0), ext)

Several == 2    \* open_alarms counts 0, 1, ..., "Several or more"

\* line 265
Rearm(os, device) == Pop(os, device)

\* Left out: a sample without a door bit is handled as closed
_process_door_timersMut(m, device, door_bit, ext, t) ==
    IF m.aborted THEN m
    ELSE
    Bind(IF door_bit = NoBit THEN 0 ELSE door_bit, LAMBDA door_open_bit :
    Bind(IF door_bit = NoBit THEN m
         ELSE [m EXCEPT !.ds = Put(m.ds, device, door_bit # 0)], LAMBDA m1 :
        IF door_open_bit = 1
        THEN IF device \notin DOMAIN m1.os
             THEN [m1 EXCEPT !.os = Put(m1.os, device, t)]
             ELSE IF t - m1.os[device] >= DOOR_OPEN_THRESHOLD_SEC
             THEN Bind(_create_alarm_on_tb(
                           [m1 EXCEPT !.oa[device] = IF @ < Several THEN @ + 1 ELSE @],
                           device, Alarm("Door Open Too Long", "", 0), ext),
                       LAMBDA m2 :
                           IF m2.aborted THEN m2
                           ELSE [m2 EXCEPT !.os = Rearm(m2.os, device)])
             ELSE m1
        ELSE [m1 EXCEPT !.os = Pop(m1.os, device), !.oa[device] = 0]))

\* Left out: the pop of a door handled as closed
_process_door_timersMutKeep(m, device, door_bit, ext, t) ==
    IF m.aborted THEN m
    ELSE
    Bind(IF door_bit = NoBit THEN (IF Get(m.ds, device, FALSE) THEN 1 ELSE 0)
         ELSE door_bit, LAMBDA door_open_bit :
    Bind(IF door_bit = NoBit THEN m
         ELSE [m EXCEPT !.ds = Put(m.ds, device, door_bit # 0)], LAMBDA m1 :
        IF door_open_bit = 1
        THEN IF device \notin DOMAIN m1.os
             THEN [m1 EXCEPT !.os = Put(m1.os, device, t)]
             ELSE IF t - m1.os[device] >= DOOR_OPEN_THRESHOLD_SEC
             THEN Bind(_create_alarm_on_tb(
                           [m1 EXCEPT !.oa[device] = IF @ < Several THEN @ + 1 ELSE @],
                           device, Alarm("Door Open Too Long", "", 0), ext),
                       LAMBDA m2 :
                           IF m2.aborted THEN m2
                           ELSE [m2 EXCEPT !.os = Rearm(m2.os, device)])
             ELSE m1
        ELSE [m1 EXCEPT !.oa[device] = 0]))

\* lines 248-267 at time t
_process_door_timers(m, device, door_bit, ext, t) ==
    IF m.aborted THEN m
    ELSE
    Bind(IF door_bit = NoBit THEN (IF Get(m.ds, device, FALSE) THEN 1 ELSE 0)
         ELSE door_bit, LAMBDA door_open_bit :
    Bind(IF door_bit = NoBit THEN m
         ELSE [m EXCEPT !.ds = Put(m.ds, device, door_bit # 0)], LAMBDA m1 :
        IF door_open_bit = 1
        THEN IF device \notin DOMAIN m1.os
             THEN [m1 EXCEPT !.os = Put(m1.os, device, t)]
             ELSE IF t - m1.os[device] >= DOOR_OPEN_THRESHOLD_SEC
             THEN Bind(_create_alarm_on_tb(
                           [m1 EXCEPT !.oa[device] = IF @ < Several THEN @ + 1 ELSE @],
                           device, Alarm("Door Open Too Long", "", 0), ext),
                       LAMBDA m2 :
                           IF m2.aborted THEN m2
                           ELSE [m2 EXCEPT !.os = Rearm(m2.os, device)])
             ELSE m1
        ELSE [m1 EXCEPT !.os = Pop(m1.os, device), !.oa[device] = 0]))

\* Left out: the check also runs on the sticky door state
FloorMismatchCheckMut(m, device, door_bit, h, fi, boundaries, ext) ==
    IF m.aborted \/ ~(door_bit = 1 \/ (door_bit = NoBit /\ Get(m.ds, device, FALSE)))
    THEN m
    ELSE Bind(_floor_mismatch(h, fi, boundaries), LAMBDA r :
         Bind(IF r.deviation > 0 THEN "above" ELSE "below", LAMBDA pos :
             IF r.mismatch
             THEN _create_alarm_on_tb(
                      [m EXCEPT !.ev = Append(@, Event("FLOOR_MISMATCH", pos, Abs(r.deviation)))],
                      device, Alarm("Floor Mismatch Alarm", pos, Abs(r.deviation)), ext)
             ELSE m))

\* lines 347-357
FloorMismatchCheck(m, device, door_bit, h, fi, boundaries, ext) ==
    IF m.aborted \/ door_bit # 1 THEN m
    ELSE Bind(_floor_mismatch(h, fi, boundaries), LAMBDA r :
         Bind(IF r.deviation > 0 THEN "above" ELSE "below", LAMBDA pos :
             IF r.mismatch
             THEN _create_alarm_on_tb(
                      [m EXCEPT !.ev = Append(@, Event("FLOOR_MISMATCH", pos, Abs(r.deviation)))],
                      device, Alarm("Floor Mismatch Alarm", pos, Abs(r.deviation)), ext)
             ELSE m))

\* line 305: parsed.get("door_val")
DoorKey == "door_val"

\* lines 300-357 at time t: the state and the record of the request afterwards
CheckAlarmRun(device, parsed, ext, t) ==
    Bind(_get_floor_meta(Machine, device, ext, t), LAMBDA f :
    IF f.m.aborted THEN f.m
    ELSE
    Bind(_compute_height(parsed, f.boundaries), LAMBDA h :
    Bind(_floor_index(h, f.boundaries), LAMBDA fi :
    Bind(_derive_motion(f.m.mv, device, h), LAMBDA mot :
    Bind(door_to_bit(Get(parsed.str, DoorKey, None)), LAMBDA door_bit :
    Bind(EnvLoop([f.m EXCEPT !.mv = mot.mv], device, parsed, ext, 1), LAMBDA m2 :
    Bind(MetricLoop(m2, device, parsed, h, ext, 1), LAMBDA m3 :
    Bind(DoorOpenWhileMoving(m3, device, mot.status, door_bit, ext), LAMBDA m4 :
    Bind(_process_door_timers(m4, device, door_bit, ext, t), LAMBDA m5 :
        FloorMismatchCheck(m5, device, door_bit, h, fi, f.boundaries, ext))))))))))

(***************************************************************************)
(* check_alarm as an action                                                *)
(***************************************************************************)
MaxCount == 4       \* runs stop before a bucket's hit count exceeds it
MaxNow == 30        \* seconds of clock the runs cover
TickSec == 5

Pack(num, str) == [present |-> TRUE, num |-> num, str |-> str]
NoPack == [present |-> FALSE, num |-> EmptyMap, str |-> EmptyMap]

NoAttrs == [raise |-> FALSE, fb_str |-> FALSE, fb |-> <<>>, fl_str |-> FALSE,
            fl |-> <<>>, hf |-> NoHome]
FetchRaises == [NoAttrs EXCEPT !.raise = TRUE]
\* floor_boundaries = "0,3000,6000,9000"
FourFloors == [NoAttrs EXCEPT !.fb_str = TRUE,
                              !.fb = <<IntTok(0), IntTok(3000), IntTok(6000), IntTok(9000)>>]

\* the platform answers every call
PlatformUp(attrs) == [lookup |-> "ok", attrs |-> attrs, post |-> "ok", raise_at |-> 0]

CountsBounded(bk) ==
    \A key \in DOMAIN bk : \A i \in 1..Len(bk[key]) : bk[key][i].count <= MaxCount

Outcome(device, pack, status, m) ==
    [op |-> "check_alarm", dev |-> device, pack |-> pack, status |-> status,
     req |-> m.req, posted |-> m.posted, created |-> m.created, ev |-> m.ev,
     fresh |-> device \notin DOMAIN _movement_state,
     timed |-> device \in DOMAIN _door_open_since]

check_alarm(device, pack, ext) ==
    /\ IF ~pack.present
       THEN /\ last' = Outcome(device, pack, "client_error", Machine)
            /\ UNCHANGED <<_device_id_cache, _floor_meta_cache, _device_door_state,
                           _door_open_since, _bucket_counts, _movement_state, open_alarms>>
       ELSE \E m \in {CheckAlarmRun(device, pack, ext, now)} :
            /\ CountsBounded(m.bk)
            /\ _device_id_cache' = m.dc
            /\ _floor_meta_cache' = m.fm
            /\ _device_door_state' = m.ds
            /\ _door_open_since' = m.os
            /\ _bucket_counts' = m.bk
            /\ _movement_state' = m.mv
            /\ open_alarms' = m.oa
            /\ last' = Outcome(device, pack,
                               IF m.aborted THEN "raised" ELSE "processed", m)
    /\ UNCHANGED <<now, query, _inmem, _state_inmem, ccvars, scvars>>

\* time.time() moves on between two requests
Tick ==
    /\ \E d \in {TickSec, DOOR_OPEN_THRESHOLD_SEC} :
          /\ now + d <= MaxNow
          /\ now' = now + d
    /\ UNCHANGED <<_device_id_cache, _floor_meta_cache, _device_door_state,
                   _door_open_since, _bucket_counts, _movement_state, open_alarms,
                   last, query, _inmem, _state_inmem, ccvars, scvars>>

InitAlarm ==
    /\ AlarmInit
    /\ _inmem = EmptyMap /\ _state_inmem = EmptyMap /\ last = [op |-> "init"]
    /\ NoThreads
    /\ query = NoQuery

(***************************************************************************)
(* Door samples over time (SpecDoor)                                       *)
(***************************************************************************)
DoorPacks ==
    {Pack([k \in {"h"} |-> 0], EmptyMap)} \cup
    {Pack([k \in {"h"} |-> 0], [k \in {"door_val"} |-> v]) : v \in {"OPEN", "open", "CLOSE", "0"}}

DoorCheck ==
    \E device \in {"dev1"}, pack \in DoorPacks :
        check_alarm(device, pack, PlatformUp(NoAttrs))

NextDoor == Tick \/ DoorCheck

SpecDoor == InitAlarm /\ [][NextDoor]_vars

(***************************************************************************)
(* Vibration samples (SpecVibe)                                            *)
(***************************************************************************)
VibeHeights == {0, 50, 101}
VibePacks ==
    {Pack([k \in {"h"} |-> h], EmptyMap) : h \in VibeHeights} \cup
    {Pack([k \in {"h", "x_vibe"} |-> IF k = "h" THEN h ELSE v], EmptyMap) :
        h \in VibeHeights, v \in {5, 6}} \cup
    {Pack([k \in {"h", "accel_z_val"} |-> IF k = "h" THEN h ELSE 16], EmptyMap) :
        h \in {0}}

VibeCheck ==
    \E device \in {"dev1"}, pack \in VibePacks, raise_at \in {0, 1} :
        check_alarm(device, pack, [PlatformUp(NoAttrs) EXCEPT !.raise_at = raise_at])

NextVibe == VibeCheck

SpecVibe == InitAlarm /\ [][NextVibe]_vars

(***************************************************************************)
(* Door and height samples on a four-floor shaft (SpecShaft)               *)
(***************************************************************************)
ShaftHeights == {2990, 3000, 3005, 3011, 4025}
ShaftDoors ==
    {EmptyMap} \cup
    {[k \in {key} |-> v] : key \in {"door", "door_val"}, v \in {"OPEN", "CLOSE"}}
\* parse_pack_raw of a pack_raw without any well-formed key=value segment: {}
Unparseable == Pack(EmptyMap, EmptyMap)
ShaftPacks ==
    {Pack([k \in {"h"} |-> h], str) : h \in ShaftHeights, str \in ShaftDoors}
        \cup {NoPack, Unparseable}

ShaftCheck ==
    \E device \in {"dev1"}, pack \in ShaftPacks, lookup \in {"ok", "http_error"} :
        check_alarm(device, pack, [PlatformUp(FourFloors) EXCEPT !.lookup = lookup])

NextShaft == ShaftCheck

SpecShaft == InitAlarm /\ [][NextShaft]_vars

(***************************************************************************)
(* _floor_index as a function of its arguments (SpecFloor)                 *)
(***************************************************************************)
MaxBoundaries == 3      \* longest boundaries list drawn from BoundaryValues

BoundaryValues == {0, 3000, 6000}
\* every list the floor_boundaries attribute can give, sorted or not, and the default
BoundaryLists ==
    UNION {[1..n -> BoundaryValues] : n \in 1..MaxBoundaries} \cup {DefaultBoundaries}
\* heights just below, at and just above a boundary
FloorHeights == {b + e : b \in BoundaryValues \cup {18000}, e \in {-1, 0, 1}}

FloorIndexCall ==
    /\ query.op = "_floor_index" /\ ~query.done
    /\ query' = [query EXCEPT !.done = TRUE,
                              !.result = _floor_index(query.h, query.boundaries)]
    /\ UNCHANGED <<_device_id_cache, _floor_meta_cache, _device_door_state,
                   _door_open_since, _bucket_counts, _movement_state, open_alarms, now,
                   last, _inmem, _state_inmem, ccvars, scvars>>

InitFloor ==
    /\ AlarmInit
    /\ _inmem = EmptyMap /\ _state_inmem = EmptyMap /\ last = [op |-> "init"]
    /\ NoThreads
    /\ query \in {[op |-> "_floor_index", h |-> h, boundaries |-> b, done |-> FALSE,
                   result |-> 0] : h \in FloorHeights, b \in BoundaryLists}

NextFloor == FloorIndexCall

SpecFloor == InitFloor /\ [][NextFloor]_vars

(***************************************************************************)
(* Claims on the alarm rule engine                                         *)
(***************************************************************************)
\* C1: within one open interval of a device's door (every sample handled as
\* open since the door was last handled as closed) the "Door Open Too Long"
\* alarm is requested at most once, however long the door stays open.
C1_DoorAlarmOncePerInterval == \A d \in DeviceIds : open_alarms[d] <= 1

Occurrences(s, x) == Cardinality({i \in DOMAIN s : s[i] = x})

\* C2: a check_alarm sample above a metric's threshold that is the third hit of
\* a bucket (the first bucket within 50 mm of its height holds count 2)
\* requests exactly one "<metric> Alarm" and removes that bucket, so the next
\* matching sample starts a fresh bucket.
C2_ThirdHitAlarmsAndResets ==
    [][(last'.op = "check_alarm" /\ last'.status # "client_error"
        /\ last'.dev \in DOMAIN _floor_meta_cache') =>
       \A i \in DOMAIN Metrics :
         LET metric == Metrics[i]
             d == last'.dev
             val == MetricValue(last'.pack, metric)
             before == BucketsOf(_bucket_counts, d, metric)
             h == _compute_height(last'.pack, _floor_meta_cache'[d].boundaries)
             b == FirstMatch(before, h)
         IN  (val # NoFloat /\ val > THRESHOLDS[metric] /\ b # 0 /\ before[b].count = 2)
             => /\ Occurrences(last'.req, Alarm(metric \o " Alarm", "", 0)) = 1
                /\ BucketsOf(_bucket_counts', d, metric) = RemoveAt(before, b)]_vars

\* C9: a processed sample whose pack reports the door open under the key door
\* and whose height is more than 10 mm from boundaries[floor_index] gets a
\* floor-mismatch event and alarm request carrying the absolute deviation, with
\* position "above" when the height is over the boundary (h=4025 on boundaries
\* 0,3000,6000,9000: deviation 1025, "above").
C9_DoorKeyFloorMismatch ==
    (/\ last.op = "check_alarm" /\ last.status = "processed"
     /\ "door" \in DOMAIN last.pack.str
     /\ door_to_bit(last.pack.str["door"]) = 1)
    => LET b == _floor_meta_cache[last.dev].boundaries
           h == _compute_height(last.pack, b)
           deviation == h - b[_floor_index(h, b) + 1]
       IN  Abs(deviation) > TOLERANCE_MM
           => \E pos \in IF deviation > 0 THEN {"above"} ELSE {"above", "below"} :
                /\ \E i \in DOMAIN last.ev :
                      last.ev[i] = Event("FLOOR_MISMATCH", pos, Abs(deviation))
                /\ \E i \in DOMAIN last.req :
                      last.req[i] = Alarm("Floor Mismatch Alarm", pos, Abs(deviation))

Ascending(b) == \A i, j \in DOMAIN b : i < j => b[i] < b[j]

\* C10: for a fixed ascending boundaries list of at least two entries,
\* _floor_index is non-decreasing in h (the index at any lower height is not
\* larger) and its result lies in 0..len(boundaries)-2.
C10_FloorIndexMonotoneInRange ==
    (/\ query.op = "_floor_index" /\ query.done
     /\ Len(query.boundaries) >= 2 /\ Ascending(query.boundaries))
    => /\ query.result \in 0..(Len(query.boundaries) - 2)
       /\ \A h2 \in FloorHeights :
             h2 <= query.h => _floor_index(h2, query.boundaries) <= query.result

(***************************************************************************)
(* Further claims on _floor_index (SpecFloor)                              *)
(***************************************************************************)
\* C11: for ascending boundaries of at least two entries a height inside
\* [boundaries[i], boundaries[i+1]) gets exactly i, a height below all
\* boundaries gets 0 and a height at or above the last boundary gets the last
\* valid index; fewer than two boundaries always give 0.
C11_FloorIndexExact ==
    (query.op = "_floor_index" /\ query.done) =>
        LET b == query.boundaries
            h == query.h
        IN  /\ Len(b) < 2 => query.result = 0
            /\ (Len(b) >= 2 /\ Ascending(b)) =>
                  /\ \A i \in 1..(Len(b) - 1) :
                        (b[i] <= h /\ h < b[i + 1]) => query.result = i - 1
                  /\ h < b[1] => query.result = 0
                  /\ h >= b[Len(b)] => query.result = Len(b) - 2

(***************************************************************************)
(* Further claims on the alarm rule engine                                 *)
(***************************************************************************)
IsCheck(l) == l.op = "check_alarm"
HasEvent(l, code) == \E i \in DOMAIN l.ev : l.ev[i].code = code
HasRequest(l, type) == \E i \in DOMAIN l.req : l.req[i].type = type
HeightOf(l) == _compute_height(l.pack, _floor_meta_cache[l.dev].boundaries)

\* C12: for a device without recorded motion state _derive_motion returns
\* (S, I, 0) whatever the height and records the height as baseline, and the
\* sample gets no "Door Open While Moving" event or alarm request.
C12_FirstSampleIdle ==
    [][(IsCheck(last') /\ last'.status = "processed"
        /\ last'.dev \notin DOMAIN _movement_state) =>
       LET d == last'.dev
           h == _compute_height(last'.pack, _floor_meta_cache'[d].boundaries)
           r == _derive_motion(_movement_state, d, h)
       IN  /\ r.dirc = "S" /\ r.status = "I" /\ r.vel = 0
           /\ _movement_state'[d] = h
           /\ ~HasEvent(last', "DOOR_OPEN_WHILE_MOVING")
           /\ ~HasRequest(last', "Door Open While Moving")]_vars

\* a first sample far above height 0 with the door open has been processed
C12_Witness ==
    /\ IsCheck(last) /\ last.status = "processed" /\ last.fresh
    /\ HeightOf(last) > MOVEMENT_DEADBAND_MM
    /\ door_to_bit(Get(last.pack.str, DoorKey, None)) = 1
    /\ _movement_state[last.dev] = HeightOf(last)

(***************************************************************************)
(* Further claims on the live counters (SpecLC)                            *)
(***************************************************************************)
HasCounters(store, date_str) == \E k \in DOMAIN store : k[2] = date_str

\* C13: flush_day_to_tb for a date without any counter posts nothing, leaves
\* the counters and the per-device state (those of other dates included) as
\* they were, and returns 0.
C13_EmptyFlushIsNoop ==
    [][(IsFlush(last') /\ ~HasCounters(_inmem, last'.date)) =>
        /\ last'.attempted = {} /\ last'.failed = {} /\ ~last'.raised
        /\ last'.flushed = 0
        /\ _inmem' = _inmem
        /\ _state_inmem' = _state_inmem]_vars

\* an empty flush of one date while another date holds counters
C13_Witness ==
    /\ IsFlush(last) /\ last.attempted = {} /\ last.flushed = 0
    /\ ~HasCounters(_inmem, last.date)
    /\ \E d \in Dates : HasCounters(_inmem, d)

(***************************************************************************)
(* alarm_aggregation_scheduler.py                                          *)
(*                                                                         *)
(* The file defines scheduler and stop_scheduler twice.  Lines 93-135 hold *)
(* the timer loop's blocking variant, start_scheduler and a stop with a    *)
(* bounded join; lines 144-167 and 240-242 define an aggregation loop and  *)
(* a stop under the same two names, so after import scheduler and          *)
(* stop_scheduler are the later ones while start_scheduler still starts    *)
(* _run_loop.  RUN_FLUSH_ON_START has its default, false.                  *)
(***************************************************************************)
MaxThreads == 2     \* _run_loop threads start_scheduler creates in a run

Running(i) == i \in DOMAIN loops /\ loops[i] # "exited"
\* _thread and _thread.is_alive()
ThreadAlive == _thread # 0 /\ Running(_thread)

LeaveLC == UNCHANGED <<lcvars, ccvars, alvars, query>>

\* lines 109-120, under _state_lock
start_scheduler ==
    /\ IF _loop_started /\ ThreadAlive
       THEN UNCHANGED <<_stop_event, _loop_started, _thread, loops>>
       ELSE /\ Len(loops) < MaxThreads
            /\ _stop_event' = FALSE
            /\ _loop_started' = TRUE
            /\ loops' = Append(loops, "poll")
            /\ _thread' = Len(loops) + 1
    /\ UNCHANGED <<stop_event, joiner, agg>>
    /\ LeaveLC

\* lines 122-129 of the first stop_scheduler, under _state_lock
StopSignal ==
    /\ joiner = "idle"
    /\ IF ~_loop_started
       THEN UNCHANGED <<_stop_event, joiner>>
       ELSE _stop_event' = TRUE /\ joiner' = "join"
    /\ UNCHANGED <<stop_event, _thread, _loop_started, loops, agg>>
    /\ LeaveLC

\* lines 130-131: no thread to join, the thread has ended, or the 5 seconds
\* pass while the loop is inside a flush tick
StopJoin ==
    /\ joiner = "join"
    /\ _thread = 0 \/ ~Running(_thread) \/ loops[_thread] = "flush"
    /\ joiner' = "clear"
    /\ UNCHANGED <<_stop_event, stop_event, _thread, _loop_started, loops, agg>>
    /\ LeaveLC

\* lines 132-135, under _state_lock
StopClear ==
    /\ joiner = "clear"
    /\ _thread' = 0
    /\ _loop_started' = FALSE
    /\ joiner' = "idle"
    /\ UNCHANGED <<_stop_event, stop_event, loops, agg>>
    /\ LeaveLC

\* lines 240-242: the stop_scheduler of the imported module
stop_scheduler ==
    /\ stop_event' = TRUE
    /\ UNCHANGED <<_stop_event, _thread, _loop_started, loops, joiner, agg>>
    /\ LeaveLC

\* line 70, then which of the two ticks is due (lines 73 and 81)
LoopPoll(i) ==
    /\ i \in DOMAIN loops /\ loops[i] = "poll"
    /\ IF _stop_event
       THEN loops' = [loops EXCEPT ![i] = "exited"]
       ELSE \E next \in {"alarm", "flush", "wait"} : loops' = [loops EXCEPT ![i] = next]
    /\ UNCHANGED <<_stop_event, stop_event, _thread, _loop_started, joiner, agg>>
    /\ LeaveLC

\* lines 74-79: _alarm_tick only logs
LoopAlarm(i) ==
    /\ i \in DOMAIN loops /\ loops[i] = "alarm"
    /\ \E next \in {"flush", "wait"} : loops' = [loops EXCEPT ![i] = next]
    /\ UNCHANGED <<_stop_event, stop_event, _thread, _loop_started, joiner, agg>>
    /\ LeaveLC

\* lines 82-87: _flush_tick flushes the current date; an exception is logged
LoopFlush(i) ==
    /\ i \in DOMAIN loops /\ loops[i] = "flush"
    /\ \E date_str \in Dates :
          IF Candidates(_inmem, date_str) = {}
          THEN /\ UNCHANGED <<_inmem, _state_inmem>>
               /\ last' = [op |-> "flush", date |-> date_str, attempted |-> {},
                           failed |-> {}, flushed |-> 0, raised |-> FALSE]
          ELSE \E order \in Orders(Candidates(_inmem, date_str)),
                  outcome \in [Candidates(_inmem, date_str) -> PostOutcomes] :
                    flush_day_to_tb(date_str, order, outcome)
    /\ loops' = [loops EXCEPT ![i] = "wait"]
    /\ UNCHANGED <<_stop_event, stop_event, _thread, _loop_started, joiner, agg>>
    /\ UNCHANGED <<ccvars, alvars, query>>

\* line 89: _stop_event.wait(0.5) returns, set or not
LoopWait(i) ==
    /\ i \in DOMAIN loops /\ loops[i] = "wait"
    /\ loops' = [loops EXCEPT ![i] = "poll"]
    /\ UNCHANGED <<_stop_event, stop_event, _thread, _loop_started, joiner, agg>>
    /\ LeaveLC

LoopStep == \E i \in 1..MaxThreads : LoopPoll(i) \/ LoopAlarm(i) \/ LoopFlush(i) \/ LoopWait(i)

InitSched == LCInit /\ NoThreads /\ AlarmInit /\ query = NoQuery

(***************************************************************************)
(* Lines 54-135 as written: start_scheduler, the stop with the bounded     *)
(* join, and the timer loop (SpecSched)                                    *)
(***************************************************************************)
NextSched == start_scheduler \/ StopSignal \/ StopJoin \/ StopClear \/ LoopStep

SpecSched == InitSched /\ [][NextSched]_vars

AggStart ==
    /\ agg = "none"
    /\ agg' = "poll"
    /\ UNCHANGED <<_stop_event, stop_event, _thread, _loop_started, loops, joiner>>
    /\ LeaveLC

\* lines 146-167: the test of stop_event, one aggregation pass, stop_event.wait
AggStep ==
    /\ agg \in {"poll", "scan", "wait"}
    /\ agg' = CASE agg = "poll" -> IF stop_event THEN "exited" ELSE "scan"
                [] agg = "scan" -> "wait"
                [] OTHER -> "poll"
    /\ UNCHANGED <<_stop_event, stop_event, _thread, _loop_started, loops, joiner>>
    /\ LeaveLC

NextModule == AggStart \/ AggStep \/ start_scheduler \/ stop_scheduler \/ LoopStep

SpecModule ==
    InitSched /\ [][NextModule]_vars /\ WF_vars(LoopStep) /\ WF_vars(AggStep)

\* C15: once stop_scheduler has been called, a running timer loop started by
\* start_scheduler eventually sees the stop signal and exits.
C15_StopReachesTimerLoop ==
    \A i \in 1..MaxThreads : (stop_event /\ Running(i)) ~> ~Running(i)


(***************************************************************************)
(* _get_floor_meta against every platform behaviour (SpecMeta)             *)
(***************************************************************************)
\* floor_boundaries = "6000,0,3000", "3000", "a,3000", "0,--5,3000"; floor_labels
\* shorter and longer than the boundaries need
MetaAttrs ==
    {NoAttrs, FetchRaises, FourFloors,
     [NoAttrs EXCEPT !.fb_str = TRUE, !.fb = <<IntTok(6000), IntTok(0), IntTok(3000)>>],
     [NoAttrs EXCEPT !.fb_str = TRUE, !.fb = <<IntTok(3000)>>],
     [NoAttrs EXCEPT !.fb_str = TRUE, !.fb = <<BadTok, IntTok(3000)>>],
     [NoAttrs EXCEPT !.fb_str = TRUE, !.fb = <<IntTok(0), TrapTok, IntTok(3000)>>],
     [FourFloors EXCEPT !.fl_str = TRUE, !.fl = <<"G">>, !.hf = 1],
     [FourFloors EXCEPT !.fl_str = TRUE, !.fl = <<"G", "1", "2", "3", "4">>]}

MetaCall ==
    \E device \in {"dev1"}, lookup \in {"ok", "http_error", "raise"}, attrs \in MetaAttrs :
      \E r \in {_get_floor_meta(Machine, device,
                                [PlatformUp(attrs) EXCEPT !.lookup = lookup], now)} :
        /\ _device_id_cache' = r.m.dc
        /\ _floor_meta_cache' = r.m.fm
        /\ query' = [op |-> "_get_floor_meta", device |-> device, lookup |-> lookup,
                     attrs |-> attrs,
                     hit |-> (device \in DOMAIN _floor_meta_cache
                              /\ now - _floor_meta_cache[device].ts < FLOOR_CACHE_TTL_SEC),
                     known |-> device \in DOMAIN _device_id_cache,
                     raised |-> r.m.aborted, boundaries |-> r.boundaries,
                     labels |-> r.labels, home_floor |-> r.home_floor]
        /\ UNCHANGED <<_device_door_state, _door_open_since, _bucket_counts,
                       _movement_state, open_alarms, now, last, _inmem, _state_inmem,
                       ccvars, scvars>>

MaxMetaNow == 600   \* seconds of clock the _get_floor_meta runs cover

\* time.time() between two calls: one second short of the TTL, or the TTL
MetaTick ==
    /\ \E d \in {FLOOR_CACHE_TTL_SEC - 1, FLOOR_CACHE_TTL_SEC} :
          /\ now + d <= MaxMetaNow
          /\ now' = now + d
    /\ UNCHANGED <<_device_id_cache, _floor_meta_cache, _device_door_state,
                   _door_open_since, _bucket_counts, _movement_state, open_alarms,
                   last, query, _inmem, _state_inmem, ccvars, scvars>>

NextMeta == MetaCall \/ MetaTick

SpecMeta == InitAlarm /\ [][NextMeta]_vars

\* C16: _get_floor_meta never lets an exception out: when the device lookup or
\* the attribute fetch fails (by status or by a raised error) it returns the
\* default boundaries, the default labels and no home floor.
C16_FloorMetaNeverRaises ==
    (query.op = "_get_floor_meta" /\ ~query.hit) =>
        /\ ~query.raised
        /\ (~query.known /\ query.lookup # "ok") \/ query.attrs.raise =>
              /\ query.boundaries = DefaultBoundaries
              /\ query.labels = DefaultLabels(Len(DefaultBoundaries) - 1)
              /\ query.home_floor = NoHome

Sorted(b) == \A i, j \in DOMAIN b : i < j => b[i] <= b[j]

\* C20: every boundaries list _get_floor_meta returns is sorted ascending and
\* has at least two entries; with fewer than two usable boundaries it is the
\* default ladder of seven.
C20_BoundariesSortedAtLeastTwo ==
    (query.op = "_get_floor_meta" /\ ~query.raised) =>
        /\ Sorted(query.boundaries)
        /\ Len(query.boundaries) >= 2
        /\ (~query.hit /\ ~query.attrs.raise /\ query.attrs.fb_str
            /\ Len(ParseBoundaries(query.attrs.fb)) < 2)
           => query.boundaries = DefaultBoundaries


\* C17: a check_alarm call in which an alarm was requested runs to its end and
\* returns "processed", whether the alarm's device id was resolved or not and
\* whether the POST succeeded, was refused or raised a network error.
C17_AlarmFailureNotFatal ==
    (IsCheck(last) /\ last.pack.present /\ Len(last.req) > 0) => last.status = "processed"


\* C18: a check_alarm request whose pack is missing, or has no well-formed
\* key=value segment, is answered as a client error and dropped: no alarm is
\* requested and every piece of alarm state stays as it was.
C18_BadPackDropped ==
    [][(IsCheck(last') /\ (~last'.pack.present \/ last'.pack = Unparseable)) =>
        /\ last'.status = "client_error"
        /\ last'.req = <<>> /\ last'.ev = <<>>
        /\ UNCHANGED <<_device_id_cache, _floor_meta_cache, _device_door_state,
                       _door_open_since, _bucket_counts, _movement_state>>]_vars


\* the alarm type requested together with an event code (lines 317-319,
\* 337-339, 352-354)
AlarmTypeOf(code) ==
    CASE code = "TEMPERATURE_HIGH" -> "Temperature Alarm"
      [] code = "HUMIDITY_HIGH" -> "Humidity Alarm"
      [] code = "DOOR_OPEN_WHILE_MOVING" -> "Door Open While Moving"
      [] OTHER -> "Floor Mismatch Alarm"

\* C19: the alarm_events of a check_alarm call holds one event for every alarm
\* creation the call requested (environment, bucket, door open while moving,
\* door open too long, floor mismatch) and no event without a request.
C19_EventPerAlarmRequest ==
    (IsCheck(last) /\ last.status = "processed") =>
        /\ Len(last.ev) = Len(last.req)
        /\ \A i \in DOMAIN last.ev : HasRequest(last, AlarmTypeOf(last.ev[i].code))


\* C21: every (boundaries, labels) pair _get_floor_meta returns has
\* len(labels) = len(boundaries) - 1, whatever number of labels the
\* floor_labels attribute supplies.
C21_LabelsOneLessThanBoundaries ==
    (query.op = "_get_floor_meta" /\ ~query.raised) =>
        Len(query.labels) = Len(query.boundaries) - 1


\* the triple of a cache entry or of a result
Triple(r) == <<r.boundaries, r.labels, r.home_floor>>
\* what the call resolves when no entry is cached
Fresh(q) ==
    _get_floor_meta([Machine EXCEPT !.fm = EmptyMap], q.device,
                    [PlatformUp(q.attrs) EXCEPT !.lookup = q.lookup], now)

\* C22: a _get_floor_meta call less than 300 seconds after the device's cache
\* entry was stored returns the stored triple and calls nothing outside; a call
\* at 300 seconds or later resolves the triple anew and stores it as the whole
\* entry, with nothing of the old entry left.
C22_CacheTTL ==
    [][(query'.op = "_get_floor_meta" /\ now' = now
        /\ query'.device \in DOMAIN _floor_meta_cache) =>
       LET d == query'.device
           e == _floor_meta_cache[d]
       IN  IF now - e.ts < FLOOR_CACHE_TTL_SEC
           THEN /\ ~query'.raised
                /\ Triple(query') = Triple(e)
                /\ UNCHANGED <<_floor_meta_cache, _device_id_cache>>
           ELSE /\ ~query'.raised
                /\ Triple(query') = Triple(Fresh(query'))
                /\ _floor_meta_cache'[d] =
                       [boundaries |-> query'.boundaries, labels |-> query'.labels,
                        home_floor |-> query'.home_floor, ts |-> now]]_vars


(***************************************************************************)
(* process_pack_out_sample on two runs that see the same timestamps,       *)
(* heights and floor labels and their own door values (SpecPair)           *)
(***************************************************************************)
\* A run: the counters and the per-device states it has built up
EmptyRun == [store |-> EmptyMap, states |-> EmptyMap]

\* lines 165-210 on a run
SampleRun(run, device_id, ts_ms, p) ==
    LET state == _state_get(run.states, device_id)
    IN  IF NothingUseful(p) \/ OrderingGuard(ts_ms, last_ts_of(state))
        THEN run
        ELSE [store |-> CountersAfter(run.store, state, device_id, ts_ms, p),
              states |-> _state_set(run.states, device_id, NewState(state, ts_ms, p))]

\* floor label and height of the packs offered: a height at a floor, or neither
PairPacks == {<<fl, h>> : fl \in FloorLabels, h \in Heights} \cup {<<None, NaN>>}

\* One sample for both runs, each with its own door value
PairSample ==
    /\ \E ts_ms \in Timestamps, fh \in PairPacks,
          da \in {None, True, False}, db \in {None, True, False} :
          query' = [op |-> "pair", dev |-> "dev1",
                    a |-> SampleRun(query.a, "dev1", ts_ms,
                                    [fl |-> fh[1], h |-> fh[2], dopen |-> da]),
                    b |-> SampleRun(query.b, "dev1", ts_ms,
                                    [fl |-> fh[1], h |-> fh[2], dopen |-> db])]
    /\ UNCHANGED <<lcvars, ccvars, alvars, scvars>>

InitPair ==
    /\ LCInit /\ NoThreads /\ AlarmInit
    /\ query = [op |-> "pair", dev |-> "dev1", a |-> EmptyRun, b |-> EmptyRun]

NextPair == PairSample

SpecPair == InitPair /\ [][NextPair]_vars

(***************************************************************************)
(* process_pack_out_sample on one run, the run before the sample kept for  *)
(* comparison (SpecIdle)                                                   *)
(***************************************************************************)
IdleSample ==
    /\ \E ts_ms \in Timestamps, fh \in PairPacks, dopen \in {None, True, False} :
          query' = [op |-> "sample", dev |-> "dev1", ts |-> ts_ms,
                    p |-> [fl |-> fh[1], h |-> fh[2], dopen |-> dopen],
                    before |-> query.a,
                    a |-> SampleRun(query.a, "dev1", ts_ms,
                                    [fl |-> fh[1], h |-> fh[2], dopen |-> dopen])]
    /\ UNCHANGED <<lcvars, ccvars, alvars, scvars>>

InitIdle ==
    /\ LCInit /\ NoThreads /\ AlarmInit
    /\ query = [op |-> "sample", dev |-> "dev1", ts |-> 0,
                p |-> [fl |-> None, h |-> NaN, dopen |-> None],
                before |-> EmptyRun, a |-> EmptyRun]

NextIdle == IdleSample

SpecIdle == InitIdle /\ [][NextIdle]_vars

IdleOf(store, date_str, device_id, f) ==
    Get(Get(store, _idle_key(date_str, device_id), EmptyMap), f, 0)

\* the sample of query was accepted by run a, and was not the device's first
AcceptedAfterFirst ==
    /\ query.dev \in DOMAIN query.before.states
    /\ query.a.states # query.before.states

\* C23: an accepted sample after a device's first, with both heights known:
\* a height change of at most 50 mm adds exactly the elapsed time to the idle
\* bucket of the sample's date and floor; a larger change adds no idle time.
C23_IdleAddsElapsed ==
    (AcceptedAfterFirst /\ query.p.h # NaN /\ query.before.states[query.dev].h # NaN) =>
        LET prev == query.before.states[query.dev]
            cur == query.a.states[query.dev]
        IN  \A dt \in Dates, f \in FloorLabels \cup {"UNKNOWN"} :
              IdleOf(query.a.store, dt, query.dev, f)
                  - IdleOf(query.before.store, dt, query.dev, f)
              = IF /\ dt = _local_date_str(query.ts) /\ f = cur.floor
                   /\ Abs(query.p.h - prev.h) <= 50
                THEN query.ts - prev.ts ELSE 0

\* a sample 50 mm from the previous one has added its elapsed time
C23_Witness ==
    /\ AcceptedAfterFirst
    /\ query.p.h # NaN /\ query.before.states[query.dev].h # NaN
    /\ Abs(query.p.h - query.before.states[query.dev].h) = 50
    /\ IdleOf(query.a.store, _local_date_str(query.ts), query.dev,
              query.a.states[query.dev].floor) >= query.ts - query.before.states[query.dev].ts
    /\ query.ts - query.before.states[query.dev].ts > 0

\* C24: two runs over samples with the same timestamps, heights and floor
\* labels and any door values end with the same idle_ms counters in every
\* (date, device, floor) bucket.
C24_IdleIndependentOfDoor ==
    \A dt \in Dates, f \in FloorLabels \cup {"UNKNOWN"} :
        IdleOf(query.a.store, dt, query.dev, f) = IdleOf(query.b.store, dt, query.dev, f)


HasCenter(buckets, c) == \E j \in DOMAIN buckets : buckets[j].center = c

\* C25: a bucket leaves the list only in the call that brings its count to 3
\* and requests the metric's alarm; no other bucket is removed or changed; and
\* an above-threshold sample is counted into the first bucket in list order
\* within 50 mm of its height, or opens a new bucket when there is none.
C25_BucketRemovedOnlyByThirdHit ==
    [][(IsCheck(last') /\ last'.status # "client_error"
        /\ last'.dev \in DOMAIN _floor_meta_cache') =>
       \A k \in DOMAIN Metrics :
         LET metric == Metrics[k]
             d == last'.dev
             val == MetricValue(last'.pack, metric)
             before == BucketsOf(_bucket_counts, d, metric)
             after == BucketsOf(_bucket_counts', d, metric)
             h == _compute_height(last'.pack, _floor_meta_cache'[d].boundaries)
             above == val # NoFloat /\ val > THRESHOLDS[metric]
             hits == {i \in DOMAIN before : Abs(before[i].center - h) <= BUCKET_HALF_MM}
         IN  /\ \A i \in DOMAIN before :
                  IF above /\ i \in hits /\ \A j \in hits : i <= j
                  THEN \/ /\ ~HasCenter(after, before[i].center)
                          /\ before[i].count = 2
                          /\ HasRequest(last', metric \o " Alarm")
                       \/ \E j \in DOMAIN after :
                             after[j] = [before[i] EXCEPT !.count = @ + 1]
                  ELSE \E j \in DOMAIN after : after[j] = before[i]
             /\ (above /\ hits = {}) => after = Append(before, [center |-> h, count |-> 1])
             /\ ~(above /\ hits = {}) => Len(after) <= Len(before)]_vars


(***************************************************************************)
(* Moving samples with a door value and a temperature (SpecMove)           *)
(***************************************************************************)
MoveHeights == {0, 20, 41, 62}
MovePacks ==
    {Pack(num, str) :
        num \in {[k \in {"h"} |-> h] : h \in MoveHeights}
                \cup {[k \in {"h", "temperature"} |-> IF k = "h" THEN h ELSE 51] :
                        h \in MoveHeights},
        str \in {EmptyMap} \cup {[k \in {"door_val"} |-> v] : v \in {"OPEN", "CLOSE"}}}

MoveCheck ==
    \E device \in {"dev1"}, pack \in MovePacks, raise_at \in {0, 1} :
        check_alarm(device, pack, [PlatformUp(NoAttrs) EXCEPT !.raise_at = raise_at])

NextMove == MoveCheck

SpecMove == InitAlarm /\ [][NextMove]_vars

\* the sample of the call l moved more than the deadband from the height mv holds
Moved(l, mv) ==
    /\ l.dev \in DOMAIN mv
    /\ Abs(_compute_height(l.pack, DefaultBoundaries) - mv[l.dev]) > MOVEMENT_DEADBAND_MM
DoorBitOf(l) == door_to_bit(Get(l.pack.str, "door_val", None))

\* C26: check_alarm requests "Door Open While Moving" once on every sample
\* whose derived status is M and whose own door bit is 1, also on consecutive
\* such samples, and on no sample whose status is I or whose door bit is 0 or
\* absent.
C26_DoorOpenWhileMovingEverySample ==
    [][(IsCheck(last') /\ last'.pack.present) =>
        Occurrences(last'.req, Alarm("Door Open While Moving", "", 0))
            = IF Moved(last', _movement_state) /\ DoorBitOf(last') = 1 THEN 1 ELSE 0]_vars


\* C27: a processed sample without a door value gets no floor-mismatch event
\* or alarm even while the device's sticky door state is open, and its
\* door-open timer follows the sticky state: running when that is open, absent
\* when it is closed or unknown.
C27_MismatchIgnoresStickyDoor ==
    [][(IsCheck(last') /\ last'.status = "processed" /\ DoorBitOf(last') = NoBit) =>
        /\ ~HasEvent(last', "FLOOR_MISMATCH")
        /\ ~HasRequest(last', "Floor Mismatch Alarm")
        /\ IF Get(_device_door_state, last'.dev, FALSE)
           THEN \/ last'.dev \in DOMAIN _door_open_since'
                \/ HasRequest(last', "Door Open Too Long")
           ELSE last'.dev \notin DOMAIN _door_open_since']_vars

\* a sample without a door value, 1025 mm off its floor, while the sticky door
\* state is open and the timer runs
C27_Witness ==
    /\ IsCheck(last) /\ last.status = "processed" /\ DoorBitOf(last) = NoBit
    /\ Get(_device_door_state, last.dev, FALSE)
    /\ last.dev \in DOMAIN _door_open_since
    /\ HeightOf(last) = 4025
    /\ ~HasEvent(last, "FLOOR_MISMATCH")


\* the door as _process_door_timers handles the sample of call l: its own bit,
\* or the recorded state ds (closed if none) when it has no bit
HandledOpen(l, ds) ==
    IF DoorBitOf(l) = NoBit THEN Get(ds, l.dev, FALSE) ELSE DoorBitOf(l) = 1

\* C28: in a processed sample a null door bit leaves the recorded door state
\* as it was and is handled as that state (closed if none is known); a sample
\* handled as closed leaves open_since absent; a sample handled as open with
\* no timer running starts the timer at the current time and requests nothing,
\* and a running timer below 15 seconds is left as it is.
C28_StickyDoorTimer ==
    [][(IsCheck(last') /\ last'.status = "processed" /\ now' = now) =>
       LET d == last'.dev IN
        /\ DoorBitOf(last') = NoBit => _device_door_state' = _device_door_state
        /\ DoorBitOf(last') # NoBit => _device_door_state'[d] = (DoorBitOf(last') = 1)
        /\ ~HandledOpen(last', _device_door_state) => d \notin DOMAIN _door_open_since'
        /\ (HandledOpen(last', _device_door_state) /\ d \notin DOMAIN _door_open_since) =>
              /\ d \in DOMAIN _door_open_since' /\ _door_open_since'[d] = now
              /\ ~HasRequest(last', "Door Open Too Long")
        /\ (/\ HandledOpen(last', _device_door_state) /\ d \in DOMAIN _door_open_since
            /\ now - _door_open_since[d] < DOOR_OPEN_THRESHOLD_SEC) =>
              /\ _door_open_since' = _door_open_since
              /\ ~HasRequest(last', "Door Open Too Long")]_vars

\* a later sample of a device reports the door open while no timer runs and
\* no alarm is pending since the last close: the timer starts at that time
C28_Witness ==
    /\ IsCheck(last) /\ last.status = "processed" /\ ~last.fresh /\ ~last.timed
    /\ DoorBitOf(last) = 1
    /\ now >= DOOR_OPEN_THRESHOLD_SEC
    /\ _door_open_since[last.dev] = now
    /\ open_alarms[last.dev] = 0


\* C29: on a call after a device's first, _derive_motion gives velocity =
\* height - stored previous height, (U, M) above 20, (D, M) below -20 and
\* (S, I) from -20 to 20, and the stored previous height becomes the height
\* passed.
C29_DeriveMotion ==
    [][(IsCheck(last') /\ last'.status # "client_error"
        /\ last'.dev \in DOMAIN _floor_meta_cache'
        /\ last'.dev \in DOMAIN _movement_state) =>
       LET d == last'.dev
           h == _compute_height(last'.pack, _floor_meta_cache'[d].boundaries)
           velocity == h - _movement_state[d]
           r == _derive_motion(_movement_state, d, h)
       IN  /\ r.vel = velocity
           /\ <<r.dirc, r.status>> = IF velocity > 20 THEN <<"U", "M">>
                                     ELSE IF velocity < -20 THEN <<"D", "M">>
                                     ELSE <<"S", "I">>
           /\ r.mv[d] = h
           /\ _movement_state'[d] = h]_vars

\* a later sample of a device at 20 mm with the door open was idle (no
\* door-open-while-moving request) and its height is the stored one
C29_Witness ==
    /\ IsCheck(last) /\ last.status = "processed" /\ ~last.fresh
    /\ HeightOf(last) = MOVEMENT_DEADBAND_MM
    /\ _movement_state[last.dev] = HeightOf(last)
    /\ ~HasRequest(last, "Door Open While Moving")
    /\ DoorBitOf(last) = 1


(***************************************************************************)
(* _compute_height as a function of its arguments (SpecHeight)             *)
(***************************************************************************)
\* a field of the pack: absent (NoFloat) or one of the values
HeightFields ==
    [h : {NoFloat, 0, 4025}, laser_val : {NoFloat, 1000, 20000}, height_raw : {NoFloat, 0, 77}]

\* the parsed pack holding the fields of f that are present
PackOf(f) ==
    Pack([k \in {x \in {"h", "laser_val", "height_raw"} : f[x] # NoFloat} |-> f[k]], EmptyMap)

\* boundaries as _get_floor_meta returns them: never empty
HeightBoundaries == {DefaultBoundaries, <<0, 3000>>, <<6000, 0, 3000>>}

ComputeHeightCall ==
    /\ query.op = "_compute_height" /\ ~query.done
    /\ query' = [query EXCEPT !.done = TRUE,
                              !.result = _compute_height(query.parsed, query.boundaries)]
    /\ UNCHANGED <<lcvars, ccvars, alvars, scvars>>

InitHeight ==
    /\ LCInit /\ NoThreads /\ AlarmInit
    /\ query \in {[op |-> "_compute_height", fields |-> f, parsed |-> PackOf(f),
                   boundaries |-> b, done |-> FALSE, result |-> 0] :
                    f \in HeightFields, b \in HeightBoundaries}

NextHeight == ComputeHeightCall

SpecHeight == InitHeight /\ [][NextHeight]_vars

MaxLen == 6
Chars == {"h", "H", "v", "=", "|", " ", "1"}
Strings == UNION {[1..n -> Chars] : n \in 0..MaxLen}

DEFAULT_INT_KEYS ==
    {<<"v">>, <<"t", "s">>, <<"f", "i">>, <<"d", "o", "o", "r">>,
     <<"h", "o", "m", "e", "_", "f", "l", "o", "o", "r">>}

\* the float keys that the characters used here can spell, and "vel"
DEFAULT_FLOAT_KEYS == {<<"h">>, <<"v", "e", "l">>}

\* str.find of one character: the first index (from 1), 0 when there is none
find(s, c) ==
    IF \E i \in 1..Len(s) : s[i] = c
    THEN CHOOSE i \in 1..Len(s) : s[i] = c /\ \A j \in 1..(i - 1) : s[j] # c
    ELSE 0

\* str.split("|"): the pieces between the separators, empty ones included
RECURSIVE split(_, _)
split(s, sep) ==
    LET i == find(s, sep) IN
    IF i = 0 THEN <<s>>
    ELSE <<SubSeq(s, 1, i - 1)>> \o split(SubSeq(s, i + 1, Len(s)), sep)

\* str.strip(): leading and trailing blanks removed
RECURSIVE strip(_)
strip(s) ==
    IF s = <<>> THEN s
    ELSE IF s[1] = " " THEN strip(Tail(s))
    ELSE IF s[Len(s)] = " " THEN strip(SubSeq(s, 1, Len(s) - 1))
    ELSE s

\* str.lower()
lower(k) == [i \in 1..Len(k) |-> IF k[i] = "H" THEN "h" ELSE k[i]]

\* int(v) and float(v) accept a stripped text of these characters only when
\* it is a run of digits
IsNumber(v) == v # <<>> /\ \A i \in 1..Len(v) : v[i] = "1"

RECURSIVE Decimal(_)
Decimal(v) == IF v = <<>> THEN 0 ELSE 10 * Decimal(SubSeq(v, 1, Len(v) - 1)) + 1

\* A value of the result: None, an int, a float or the text itself
Value(kind, num, text) == [kind |-> kind, num |-> num, text |-> text]

_coerce_value(key, val, int_keys, float_keys) ==
    IF val = <<>> THEN Value("None", 0, <<>>)
    ELSE IF key \in int_keys
         THEN (IF IsNumber(val) THEN Value("int", Decimal(val), <<>>) ELSE Value("str", 0, val))
    ELSE IF key \in float_keys
         THEN (IF IsNumber(val) THEN Value("float", Decimal(val), <<>>) ELSE Value("str", 0, val))
    ELSE Value("str", 0, val)

\* the loop body with the first occurrence of a key kept
ParsePairMut(out, pair, lowercase_keys) ==
    IF pair = <<>> THEN out
    ELSE LET eq == find(pair, "=") IN
         IF eq = 0 THEN out
         ELSE LET k == strip(SubSeq(pair, 1, eq - 1))
                  v == strip(SubSeq(pair, eq + 1, Len(pair)))
              IN  IF k = <<>> THEN out
                  ELSE LET key == IF lowercase_keys THEN lower(k) ELSE k
                       IN  IF key \in DOMAIN out THEN out
                           ELSE Put(out, key, _coerce_value(key, v, DEFAULT_INT_KEYS, DEFAULT_FLOAT_KEYS))

\* the loop body of parse_pack_raw on one segment
ParsePair(out, pair, lowercase_keys) ==
    IF pair = <<>> THEN out
    ELSE LET eq == find(pair, "=") IN
         IF eq = 0 THEN out
         ELSE LET k == strip(SubSeq(pair, 1, eq - 1))
                  v == strip(SubSeq(pair, eq + 1, Len(pair)))
              IN  IF k = <<>> THEN out
                  ELSE LET key == IF lowercase_keys THEN lower(k) ELSE k
                       IN  Put(out, key, _coerce_value(key, v, DEFAULT_INT_KEYS, DEFAULT_FLOAT_KEYS))

RECURSIVE ParsePairs(_, _, _)
ParsePairs(out, pairs, lowercase_keys) ==
    IF pairs = <<>> THEN out
    ELSE ParsePairs(ParsePair(out, Head(pairs), lowercase_keys), Tail(pairs), lowercase_keys)

parse_pack_raw(s, lowercase_keys) ==
    IF s = <<>> THEN EmptyMap
    ELSE ParsePairs(EmptyMap, split(s, "|"), lowercase_keys)

\* "|".join(pairs)
RECURSIVE join(_)
join(pairs) ==
    IF Len(pairs) = 1 THEN pairs[1]
    ELSE pairs[1] \o <<"|">> \o join(Tail(pairs))

\* the segments of s with those at i and j exchanged
Swapped(s, i, j) ==
    LET pairs == split(s, "|") IN
    join([n \in 1..Len(pairs) |-> IF n = i THEN pairs[j] ELSE IF n = j THEN pairs[i] ELSE pairs[n]])

\* One call on s, and one on the same segments in another order
ParseCall ==
    /\ query.op = "parse_pack_raw" /\ ~query.done
    /\ \E i, j \in 1..Len(split(query.s, "|")) :
         /\ i <= j
         /\ query' = [query EXCEPT !.done = TRUE,
                                   !.out = parse_pack_raw(query.s, query.lowercase_keys),
                                   !.t = Swapped(query.s, i, j),
                                   !.out_t = parse_pack_raw(Swapped(query.s, i, j),
                                                            query.lowercase_keys)]
    /\ UNCHANGED <<lcvars, ccvars, alvars, scvars>>

InitParse ==
    /\ LCInit /\ NoThreads /\ AlarmInit
    /\ query \in {[op |-> "parse_pack_raw", s |-> s, lowercase_keys |-> lc, done |-> FALSE,
                   out |-> EmptyMap, t |-> s, out_t |-> EmptyMap] :
                    s \in Strings, lc \in BOOLEAN}

NextParse == ParseCall

SpecParse == InitParse /\ [][NextParse]_vars

\* what the specification says of one segment
WellFormed(pair) == find(pair, "=") > 0 /\ strip(SubSeq(pair, 1, find(pair, "=") - 1)) # <<>>
KeyOf(pair, lowercase_keys) ==
    LET k == strip(SubSeq(pair, 1, find(pair, "=") - 1)) IN IF lowercase_keys THEN lower(k) ELSE k
ValueOf(pair) == strip(SubSeq(pair, find(pair, "=") + 1, Len(pair)))

\* C31: parse_pack_raw returns a dict for every string: its keys are the keys
\* of the well-formed segments (those with an "=" and a non-empty key), a
\* segment without "=" or with an empty key adds nothing, the value of a key is
\* the coerced value of the last segment that has this key, and when the
\* well-formed segments have distinct keys the same segments in another order
\* give the same dict.
C31_ParseTolerant ==
    (query.op = "parse_pack_raw" /\ query.done) =>
        LET pairs == split(query.s, "|")
            lc == query.lowercase_keys
            wf == {n \in 1..Len(pairs) : WellFormed(pairs[n])}
            LastOf(k) == CHOOSE n \in wf : /\ KeyOf(pairs[n], lc) = k
                                           /\ \A m \in wf : KeyOf(pairs[m], lc) = k => m <= n
        IN  /\ DOMAIN query.out = {KeyOf(pairs[n], lc) : n \in wf}
            /\ \A k \in DOMAIN query.out :
                   query.out[k] = _coerce_value(k, ValueOf(pairs[LastOf(k)]),
                                                DEFAULT_INT_KEYS, DEFAULT_FLOAT_KEYS)
            /\ (\A m, n \in wf : KeyOf(pairs[m], lc) = KeyOf(pairs[n], lc) => m = n)
                   => query.out_t = query.out

\* "h=1|h=": the key occurs twice and the last, empty, value is returned
C31_Witness ==
    /\ query.op = "parse_pack_raw" /\ query.done
    /\ query.s = <<"h", "=", "1", "|", "h", "=">>
    /\ DOMAIN query.out = {<<"h">>}
    /\ query.out[<<"h">>].kind = "None"


(***************************************************************************)
(* _get_device_id with its account (SpecDevId)                             *)
(***************************************************************************)
\* The keys of ACCOUNTS (TB_ACCOUNTS of the environment) and the device names
\* of the requests
AccountIds == {"eu", "eu:x"}
DeviceNames == {"lift", "x:lift"}
\* The ids the platform may answer with
PlatformIds == {"id-1", "id-2"}
\* requests.get: an answer with an id, an answer without one, a status that
\* is not ok, an exception
LookupOutcomes ==
    {[kind |-> "ok", id |-> i] : i \in PlatformIds}
        \cup {[kind |-> k, id |-> None] : k \in {"parse", "status", "raise"}}

\* f"{account_id}:{device_name}"
cache_key(account_id, device_name) == account_id \o ":" \o device_name

\* lines 106-123 on the cache dc with the outcome res of requests.get
DeviceIdLookup(dc, device_name, account_id, res) ==
    LET key == cache_key(account_id, device_name) IN
    IF key \in DOMAIN dc
    THEN [dc |-> dc, id |-> dc[key], called |-> FALSE, raised |-> FALSE]
    ELSE IF res.kind = "ok"
    THEN [dc |-> Put(dc, key, res.id), id |-> res.id, called |-> TRUE, raised |-> FALSE]
    ELSE [dc |-> dc, id |-> None, called |-> TRUE, raised |-> (res.kind = "raise")]

\* One call; query.known holds, for each (account, device name), the id of
\* its successful lookup
DeviceIdCall ==
    /\ query.op = "_get_device_id"
    /\ \E account_id \in AccountIds, device_name \in DeviceNames, res \in LookupOutcomes :
         LET r == DeviceIdLookup(_device_id_cache, device_name, account_id, res)
             pair == <<account_id, device_name>>
         IN  /\ _device_id_cache' = r.dc
             /\ query' = [op |-> "_get_device_id", pair |-> pair, res |-> res,
                          before |-> query.known,
                          known |-> IF r.called /\ res.kind = "ok"
                                    THEN Put(query.known, pair, res.id) ELSE query.known,
                          id |-> r.id, called |-> r.called, raised |-> r.raised]
    /\ UNCHANGED <<lcvars, ccvars, scvars, _floor_meta_cache, _device_door_state,
                   _door_open_since, _bucket_counts, _movement_state, open_alarms, now>>

InitDevId ==
    /\ LCInit /\ NoThreads /\ AlarmInit
    /\ query = [op |-> "_get_device_id", pair |-> <<"", "">>, res |-> [kind |-> "none", id |-> None],
                before |-> EmptyMap, known |-> EmptyMap, id |-> None,
                called |-> FALSE, raised |-> FALSE]

NextDevId == DeviceIdCall

SpecDevId == InitDevId /\ [][NextDevId]_vars

\* C32: the id of a successful lookup for an (account, device name) stays in
\* the cache unchanged; a call for a pair that has had a successful lookup
\* returns that id without an external call; a call for a pair that has not
\* had one performs the external call, and when that fails nothing is stored
\* and None is returned.
C32_DeviceIdWriteOnce ==
    (query.op = "_get_device_id" /\ query.res.kind # "none") =>
        /\ \A p \in DOMAIN query.known :
              /\ cache_key(p[1], p[2]) \in DOMAIN _device_id_cache
              /\ _device_id_cache[cache_key(p[1], p[2])] = query.known[p]
        /\ \A p \in DOMAIN query.before : query.known[p] = query.before[p]
        /\ IF query.pair \in DOMAIN query.before
           THEN ~query.called /\ query.id = query.before[query.pair]
           ELSE /\ query.called
                /\ query.res.kind # "ok" =>
                      /\ query.id = None
                      /\ query.known = query.before


(***************************************************************************)
(* The timer loop with its clock and the live counters (SpecTimer).        *)
(* now is time.time() in seconds; samples carry the current time; every    *)
(* telemetry write is answered with a 2xx; the loop is started once and is *)
(* not stopped.  Threads that can step do step and the clock advances.     *)
(***************************************************************************)
MaxDays == 2
FLUSH_INTERVAL_SEC == 86400
DaySec == DayMs \div 1000

\* the instants looked at: the last second of a day and the first of the next
TimerInstants == UNION {{k * DaySec - 1, k * DaySec} : k \in 1..MaxDays}
LastInstant == MaxDays * DaySec
TimerDates == {_local_date_str(t * 1000) : t \in TimerInstants}

\* _run_loop's thread and its local next_flush
TimerThread == 1
FlushDue == Running(TimerThread) /\ now >= loc[TimerThread].next_flush

\* lines 58-60 at the start of the thread
InitTimer ==
    /\ LCInit /\ query = NoQuery
    /\ _device_id_cache = EmptyMap /\ _floor_meta_cache = EmptyMap
    /\ _device_door_state = EmptyMap /\ _door_open_since = EmptyMap
    /\ _bucket_counts = EmptyMap /\ _movement_state = EmptyMap
    /\ open_alarms = [d \in DeviceIds |-> 0]
    /\ pc = EmptyMap /\ gen = EmptyMap
    /\ incs = EmptyMap /\ written = EmptyMap /\ calls = EmptyMap
    /\ _stop_event = FALSE /\ stop_event = FALSE
    /\ _thread = TimerThread /\ _loop_started = TRUE
    /\ loops = <<"poll">> /\ joiner = "idle" /\ agg = "none"
    /\ \E t \in {DaySec - 1, DaySec} :
          /\ now = t
          /\ loc = [i \in {TimerThread} |-> [next_flush |-> t + FLUSH_INTERVAL_SEC]]

\* lines 45-52: flush_day_to_tb for the date of the clock
_flush_tick ==
    LET date_str == _local_date_str(now * 1000) IN
    IF Candidates(_inmem, date_str) = {}
    THEN /\ UNCHANGED <<_inmem, _state_inmem>>
         /\ last' = [op |-> "flush", date |-> date_str, attempted |-> {},
                     failed |-> {}, flushed |-> 0, raised |-> FALSE]
    ELSE \E order \in Orders(Candidates(_inmem, date_str)) :
            flush_day_to_tb(date_str, order, [d \in Candidates(_inmem, date_str) |-> "ok"])

\* lines 70-87: one pass of the while loop up to the wait; _alarm_tick only logs
TimerPoll ==
    /\ loops[TimerThread] = "poll"
    /\ IF _stop_event
       THEN /\ loops' = [loops EXCEPT ![TimerThread] = "exited"]
            /\ UNCHANGED <<_inmem, _state_inmem, last, loc>>
       ELSE /\ loops' = [loops EXCEPT ![TimerThread] = "wait"]
            /\ IF now >= loc[TimerThread].next_flush
               THEN /\ _flush_tick
                    /\ loc' = [loc EXCEPT ![TimerThread].next_flush = now + FLUSH_INTERVAL_SEC]
               ELSE UNCHANGED <<_inmem, _state_inmem, last, loc>>
    /\ UNCHANGED <<pc, gen, incs, written, calls, alvars, query>>
    /\ UNCHANGED <<_stop_event, stop_event, _thread, _loop_started, joiner, agg>>

\* line 89
TimerWait ==
    /\ loops[TimerThread] = "wait"
    /\ loops' = [loops EXCEPT ![TimerThread] = "poll"]
    /\ UNCHANGED <<_stop_event, stop_event, _thread, _loop_started, joiner, agg>>
    /\ LeaveLC

TimerStep == TimerPoll \/ TimerWait

\* The clock reaches the next instant; a flush tick that is due fires first
TimerTick ==
    /\ now < LastInstant /\ ~FlushDue
    /\ now' = CHOOSE t \in TimerInstants :
                    t > now /\ \A u \in TimerInstants : u > now => t <= u
    /\ UNCHANGED <<lcvars, ccvars, scvars, query, _device_id_cache, _floor_meta_cache,
                   _device_door_state, _door_open_since, _bucket_counts, _movement_state,
                   open_alarms>>

\* A sample stamped with the clock, before the last instant
TimerPacks == [fl : {"G"}, h : {0}, dopen : {True, False}]

TimerSample ==
    /\ now < LastInstant
    /\ \E device_id \in DeviceIds, p \in TimerPacks :
          process_pack_out_sample(device_id, now * 1000, p)
    /\ UNCHANGED <<ccvars, elsewhere>>

NextTimer == TimerStep \/ TimerTick \/ TimerSample

SpecTimer ==
    InitTimer /\ [][NextTimer]_vars /\ WF_vars(TimerStep) /\ WF_vars(TimerTick)

HasBucket(date_str, device_id) ==
    \/ _door_key(date_str, device_id) \in DOMAIN _inmem
    \/ _idle_key(date_str, device_id) \in DOMAIN _inmem

\* C33: with the timer loop running and every write answered, a device's
\* counters of any date, once incremented, are eventually flushed and cleared.
C33_EveryBucketEventuallyFlushed ==
    \A date_str \in TimerDates, device_id \in DeviceIds :
        HasBucket(date_str, device_id) ~> ~HasBucket(date_str, device_id)


(***************************************************************************)
(* Sequential runs with the increments and the written values counted      *)
(* (SpecOnce): incs and written are kept as in the concurrent model         *)
(***************************************************************************)
\* the (key, floor) pairs of a store
Cells(store) == UNION {{<<k, f>> : f \in DOMAIN store[k]} : k \in DOMAIN store}
CellOf(store, x) == Get(Get(store, x[1], EmptyMap), x[2], 0)

\* dev1 at every timestamp, still or moved; dev2 still, at two timestamps of
\* one date
OnceSamples ==
    {<<"dev1", t, p>> : t \in Timestamps, p \in [fl : {"G"}, h : {0, 101}, dopen : {True, False}]}
    \cup {<<"dev2", t, p>> : t \in {DayMs, DayMs + TickMs},
            p \in [fl : {"G"}, h : {0}, dopen : {True, False}]}

\* a sample, with what its _hinc calls added
OnceSample ==
    /\ \E s \in OnceSamples : process_pack_out_sample(s[1], s[2], s[3])
    /\ incs' = [x \in (DOMAIN incs) \cup Cells(_inmem') |->
                   Get(incs, x, 0) + CellOf(_inmem', x) - CellOf(_inmem, x)]
    /\ UNCHANGED <<pc, loc, gen, written, calls, elsewhere>>

\* a flush, with the door_counts and idle_ms of the bodies that were answered
\* with a status below 400 (query keeps what this flush wrote)
OnceFlush ==
    /\ \E date_str \in Dates :
          IF Candidates(_inmem, date_str) = {}
          THEN /\ UNCHANGED <<_inmem, _state_inmem>>
               /\ last' = [op |-> "flush", date |-> date_str, attempted |-> {},
                           failed |-> {}, flushed |-> 0, raised |-> FALSE]
          ELSE \E order \in Orders(Candidates(_inmem, date_str)),
                  outcome \in [Candidates(_inmem, date_str) -> PostOutcomes] :
                    flush_day_to_tb(date_str, order, outcome)
    /\ LET sent == {x \in Cells(_inmem) :
                      /\ x[1][2] = last'.date
                      /\ x[1][3] \in last'.attempted \ last'.failed}
       IN  /\ written' = [x \in (DOMAIN written) \cup sent |->
                            Get(written, x, 0) + (IF x \in sent THEN CellOf(_inmem, x) ELSE 0)]
           /\ query' = [op |-> "flush", wrote |-> [x \in sent |-> CellOf(_inmem, x)]]
    /\ UNCHANGED <<pc, loc, gen, incs, calls, alvars, scvars>>

InitOnce == InitLC

NextOnce == OnceSample \/ OnceFlush

SpecOnce == InitOnce /\ [][NextOnce]_vars

\* C34: what the successful flush writes have carried of a counter, together
\* with what is still stored, never exceeds what was added to it, so no
\* increment is written twice; and after a flush the devices whose write
\* succeeded have no counters left for that date.
C34_IncrementFlushedOnce ==
    /\ \A x \in (DOMAIN incs) \cup (DOMAIN written) :
          Get(written, x, 0) + CellOf(_inmem, x) <= Get(incs, x, 0)
    /\ IsFlush(last) =>
          \A device_id \in last.attempted \ last.failed :
              ~HasBucket(last.date, device_id)

\* a second successful flush of a date wrote only what came after the first
C34_Witness ==
    /\ IsFlush(last) /\ query.op = "flush"
    /\ \E x \in DOMAIN query.wrote :
          /\ query.wrote[x] > 0
          /\ written[x] > query.wrote[x]
          /\ written[x] = incs[x]


\* C35: after a check_alarm call that completed without an exception every
\* stored bucket, of every device and metric, has a count of 1 or 2.
C35_CountsOneOrTwo ==
    (IsCheck(last) /\ last.status = "processed") =>
        \A key \in DOMAIN _bucket_counts :
            \A i \in DOMAIN _bucket_counts[key] : _bucket_counts[key][i].count \in {1, 2}


\* C36: any two buckets stored for the same device and metric have centers
\* more than BUCKET_HALF_MM apart.
C36_CentersApart ==
    \A key \in DOMAIN _bucket_counts :
        \A i, j \in DOMAIN _bucket_counts[key] :
            i # j => Abs(_bucket_counts[key][i].center - _bucket_counts[key][j].center)
                        > BUCKET_HALF_MM

\* two buckets of one metric, 51 mm apart, after a sample that opened the second
C36_Witness ==
    /\ IsCheck(last) /\ HeightOf(last) = 101
    /\ \E key \in DOMAIN _bucket_counts :
          /\ Len(_bucket_counts[key]) = 2
          /\ _bucket_counts[key][1].center = 50
          /\ _bucket_counts[key][2] = [center |-> 101, count |-> 1]


\* C37: a device with a door-open start time has its recorded door state
\* open; a device whose recorded state is closed, or that has none, has no
\* door-open start time.
C37_OpenSinceImpliesOpen ==
    \A device \in DOMAIN _door_open_since :
        /\ device \in DOMAIN _device_door_state
        /\ _device_door_state[device] = TRUE

\* a sample without a door value, handled as open, with the timer running
C37_Witness ==
    /\ IsCheck(last) /\ last.status = "processed"
    /\ DoorBitOf(last) = NoBit
    /\ last.dev \in DOMAIN _door_open_since
    /\ _device_door_state[last.dev] = TRUE


(***************************************************************************)
(* Samples of two devices on the three paths (SpecFrame): check_alarm,     *)
(* calculated_telemetry and process_pack_out_sample.  calculated_telemetry *)
(* keeps a _movement_state of its own, held in query.mv; it feeds the live *)
(* counters under the platform id of the device.  The platform answers     *)
(* every call and has no floor attributes for the devices.                 *)
(***************************************************************************)
\* dev1: at rest with the door open and an x_vibe above the threshold, or
\* moved with the door closed; dev2: at rest with the door open
FramePacks(device) ==
    IF device = "dev1"
    THEN {Pack([k \in {"h", "x_vibe"} |-> IF k = "h" THEN 0 ELSE 6],
               [k \in {"door_val"} |-> "OPEN"]),
          Pack([k \in {"h"} |-> 101], [k \in {"door_val"} |-> "CLOSE"])}
    ELSE {Pack([k \in {"h"} |-> 0], [k \in {"door_val"} |-> "OPEN"])}

FrameCheck ==
    \E device \in DeviceIds : \E pack \in FramePacks(device) :
        check_alarm(device, pack, PlatformUp(NoAttrs))

\* calculated_telemetry.py lines 310-343: the deriveds, then the live counters
\* on (floor_label, height, door_open) of the pack_out built from them
calculated_telemetry(device, parsed, ts_ms) ==
    LET boundaries == DefaultBoundaries
        labels == DefaultLabels(Len(boundaries) - 1)
        h == _compute_height(parsed, boundaries)
        fi == _floor_index(h, boundaries)
        mot == _derive_motion(query.mv, device, h)
        door_bit == door_to_bit(Get(parsed.str, "door_val", None))
        p == [fl |-> FloorLabelOf(labels, fi), h |-> h,
              dopen |-> IF door_bit = NoBit THEN None
                        ELSE IF door_bit = 1 THEN True ELSE False]
    IN  /\ query' = [op |-> "calculated_telemetry", dev |-> device, mv |-> mot.mv]
        /\ process_pack_out_sample(DeviceIdOf(device), ts_ms, p)
        /\ UNCHANGED <<ccvars, alvars, scvars>>

FrameTelemetry ==
    \E device \in DeviceIds :
    \E parsed \in FramePacks(device), ts_ms \in {DayMs} :
        calculated_telemetry(device, parsed, ts_ms)

\* process_pack_out_sample called with a platform id
FrameSample ==
    /\ \E s \in {<<DeviceIdOf(d), t, p>> : d \in DeviceIds, t \in {DayMs + TickMs},
                    p \in [fl : {"G"}, h : {0}, dopen : {True}]} :
          process_pack_out_sample(s[1], s[2], s[3])
    /\ UNCHANGED <<ccvars, elsewhere>>

InitFrame ==
    /\ LCInit /\ NoThreads /\ AlarmInit
    /\ query = [op |-> "calculated_telemetry", dev |-> None, mv |-> EmptyMap]

NextFrame == FrameCheck \/ FrameTelemetry \/ FrameSample

SpecFrame == InitFrame /\ [][NextFrame]_vars

\* what the maps hold for one device
Entry(f, k) == IF k \in DOMAIN f THEN <<f[k]>> ELSE <<>>
Keyed(f, i, v) == [k \in {x \in DOMAIN f : x[i] = v} |-> f[k]]
\* the device a call was for (the live counters know it by its platform id)
SubjectOf(l) ==
    IF l.op = "process" THEN CHOOSE d \in DeviceIds : DeviceIdOf(d) = l.dev ELSE l.dev

SumSample ==
    /\ query.op = "sum"
    /\ \E s \in Samples :
          /\ process_pack_out_sample(s[1], s[2], s[3])
          /\ query' = IF last'.outcome = "accepted" /\ s[1] \notin DOMAIN query.first
                      THEN [query EXCEPT !.first = Put(@, s[1], s[2])]
                      ELSE query
    /\ UNCHANGED <<ccvars, alvars, scvars>>

InitSum == LCInit /\ NoThreads /\ AlarmInit /\ query = [op |-> "sum", first |-> EmptyMap]

NextSum == SumSample

SpecSum == InitSum /\ [][NextSum]_vars

RECURSIVE SumCells(_, _)
SumCells(store, cells) ==
    IF cells = {} THEN 0
    ELSE LET x == CHOOSE c \in cells : TRUE
         IN  CellOf(store, x) + SumCells(store, cells \ {x})

\* idle_ms of a device over all dates and floors
IdleSum(store, device_id) ==
    SumCells(store, {x \in Cells(store) : x[1][3] = device_id /\ x[1][4] = "idle_ms"})

\* C39: without a flush, a device's idle_ms summed over its (date, floor)
\* buckets is at most the time from its first accepted sample to its latest,
\* and every stored door count and idle_ms is a natural number.
C39_IdleSumBounded ==
    query.op = "sum" =>
        /\ \A d \in DeviceIds :
              IdleSum(_inmem, d) <=
                  IF d \in DOMAIN query.first
                  THEN last_ts_of(_state_get(_state_inmem, d)) - query.first[d]
                  ELSE 0
        /\ \A x \in Cells(_inmem) : CellOf(_inmem, x) \in Nat

\* idle time in the buckets of two dates that adds up to the whole span
C39_Witness ==
    /\ query.op = "sum" /\ "dev1" \in DOMAIN query.first
    /\ Cardinality({x \in Cells(_inmem) : x[1][3] = "dev1" /\ x[1][4] = "idle_ms"}) = 2
    /\ IdleSum(_inmem, "dev1") = 2 * TickMs
    /\ last_ts_of(_state_get(_state_inmem, "dev1")) - query.first["dev1"] = 2 * TickMs


(***************************************************************************)
(* Door and height samples below, inside and above the shaft (SpecBelow)   *)
(***************************************************************************)
\* floor_boundaries = "1000,4000"
LiftedFloors == [NoAttrs EXCEPT !.fb_str = TRUE, !.fb = <<IntTok(1000), IntTok(4000)>>]
\* floor_boundaries = "3000,0"
DescendingFloors == [NoAttrs EXCEPT !.fb_str = TRUE, !.fb = <<IntTok(3000), IntTok(0)>>]

BelowHeights == {-20, 0, 5, 995, 1000, 3011, 9500}
BelowPacks ==
    {Pack([k \in {"h"} |-> h], [k \in {"door_val"} |-> v]) :
        h \in BelowHeights, v \in {"OPEN", "CLOSE"}}

BelowCheck ==
    \E device \in {"dev1"}, pack \in BelowPacks,
       attrs \in {FourFloors, LiftedFloors, DescendingFloors} :
        check_alarm(device, pack, PlatformUp(attrs))

NextBelow == BelowCheck

SpecBelow == InitAlarm /\ [][NextBelow]_vars

MismatchPositions(ev) ==
    {ev[i].pos : i \in {j \in DOMAIN ev : ev[j].code = "FLOOR_MISMATCH"}}

\* C40: with ascending boundaries of length at least 2, a floor-mismatch event
\* of check_alarm says "below" only when the height is below the lowest
\* boundary; at or above the lowest boundary the deviation from
\* boundaries[floor_index] is non-negative and an event can only say "above".
C40_BelowOnlyUnderLowest ==
    (/\ last.op = "check_alarm" /\ last.status = "processed"
     /\ last.dev \in DOMAIN _floor_meta_cache
     /\ Len(_floor_meta_cache[last.dev].boundaries) >= 2
     /\ Ascending(_floor_meta_cache[last.dev].boundaries))
    => LET b == _floor_meta_cache[last.dev].boundaries
           h == _compute_height(last.pack, b)
       IN  /\ "below" \in MismatchPositions(last.ev) => h < b[1]
           /\ h >= b[1] => /\ h - b[_floor_index(h, b) + 1] >= 0
                           /\ MismatchPositions(last.ev) \subseteq {"above"}

\* a sample under the lowest boundary of an ascending list is reported "below"
C40_Witness ==
    /\ last.op = "check_alarm" /\ last.status = "processed"
    /\ last.dev \in DOMAIN _floor_meta_cache
    /\ _floor_meta_cache[last.dev].boundaries = <<1000, 4000>>
    /\ _compute_height(last.pack, <<1000, 4000>>) = -20
    /\ MismatchPositions(last.ev) = {"below"}
====
